---- MODULE Spec2Model ----
(***************************************************************************)
(* Kolaba: reconciliation of a local vault of markdown documents with a    *)
(* GitHub repository (src/main.ts).  Texts and paths are sequences of      *)
(* one-character strings, so that toLowerCase, endsWith, split and the     *)
(* line-ending normalisation are computed as the code computes them.       *)
(***************************************************************************)
EXTENDS Integers, Sequences, FiniteSets, TLC

(* ------------------------------------------------------------------ *)
(* Characters, paths and texts                                         *)
(* ------------------------------------------------------------------ *)

LF == "\n"
CR == "\r"
\* one character outside ASCII (two UTF-8 bytes, one UTF-16 code unit)
EAcute == "U+00E9"

UpperCaseLetters == <<"A","B","C","D","E","F","G","H","I","J","K","L","M",
                      "N","O","P","Q","R","S","T","U","V","W","X","Y","Z">>
LowerCaseLetters == <<"a","b","c","d","e","f","g","h","i","j","k","l","m",
                      "n","o","p","q","r","s","t","u","v","w","x","y","z">>

toLowerChar(c) ==
    IF \E i \in 1..Len(UpperCaseLetters) : UpperCaseLetters[i] = c
    THEN LowerCaseLetters[CHOOSE i \in 1..Len(UpperCaseLetters) : UpperCaseLetters[i] = c]
    ELSE c

\* String.prototype.toLowerCase
toLowerCase(s) == [i \in 1..Len(s) |-> toLowerChar(s[i])]

\* String.prototype.endsWith
endsWith(s, suffix) ==
    /\ Len(s) >= Len(suffix)
    /\ SubSeq(s, Len(s) - Len(suffix) + 1, Len(s)) = suffix

MdExt == <<".", "m", "d">>

\* content.replace(/\r\n/g, '\n')
RECURSIVE replaceCRLF(_)
replaceCRLF(s) ==
    IF s = <<>> THEN <<>>
    ELSE IF Len(s) >= 2 /\ s[1] = CR /\ s[2] = LF
         THEN <<LF>> \o replaceCRLF(SubSeq(s, 3, Len(s)))
         ELSE <<s[1]>> \o replaceCRLF(Tail(s))

\* content.replace(/\r/g, '\n')
replaceCR(s) == [i \in 1..Len(s) |-> IF s[i] = CR THEN LF ELSE s[i]]

\* a mutant of normalizeLineEndings: the text is left as it is
normalizeLineEndingsNone(s) == s

\* content.replace(/\r\n/g, '\n').replace(/\r/g, '\n')
normalizeLineEndings(s) == replaceCR(replaceCRLF(s))

\* a mutant of splitLines: the text as one line
splitLinesWhole(s) == << s >>

\* content.split('\n'): the lines of a text, one more than its line feeds
RECURSIVE splitLines(_)
splitLines(s) ==
    IF \A i \in 1..Len(s) : s[i] # LF THEN << s >>
    ELSE LET k == CHOOSE i \in 1..Len(s) :
                     s[i] = LF /\ \A j \in 1..(i - 1) : s[j] # LF
         IN  << SubSeq(s, 1, k - 1) >> \o splitLines(SubSeq(s, k + 1, Len(s)))

(* ------------------------------------------------------------------ *)
(* UTF-8 and the blob hash                                             *)
(* ------------------------------------------------------------------ *)

\* TextEncoder.encode of one character
utf8Char(c) ==
    CASE c = "a"    -> <<97>>
      [] c = "b"    -> <<98>>
      [] c = LF     -> <<10>>
      [] c = CR     -> <<13>>
      [] c = EAcute -> <<195, 169>>
      [] OTHER      -> <<63>>

\* new TextEncoder().encode(content)
RECURSIVE utf8Encode(_)
utf8Encode(s) == IF s = <<>> THEN <<>> ELSE utf8Char(s[1]) \o utf8Encode(Tail(s))

\* new TextDecoder('utf-8').decode(bytes)
RECURSIVE utf8Decode(_)
utf8Decode(b) ==
    IF b = <<>> THEN <<>>
    ELSE IF Len(b) >= 2 /\ b[1] = 195 /\ b[2] = 169
         THEN <<EAcute>> \o utf8Decode(SubSeq(b, 3, Len(b)))
         ELSE << CASE b[1] = 97 -> "a"
                   [] b[1] = 98 -> "b"
                   [] b[1] = 10 -> LF
                   [] b[1] = 13 -> CR
                   [] OTHER     -> "?" >> \o utf8Decode(Tail(b))

\* SHA-1 is modelled as injective: a digest is its pre-image
\* "blob <length>\0<bytes>", kept as the pair (length, bytes).
NoSha == [len |-> -1, data |-> <<>>]

\* the object store's hash of a blob: the header carries the byte length
gitBlobSha(bytes) == [len |-> Len(bytes), data |-> bytes]

\* calculateContentHash: the header carries content.length (UTF-16 units)
calculateContentHash(content) == [len |-> Len(content), data |-> utf8Encode(content)]

(* ------------------------------------------------------------------ *)
(* The universe of paths and texts                                     *)
(* ------------------------------------------------------------------ *)

PathNoteUpper == <<"N", ".", "m", "d">>
PathNoteLower == <<"n", ".", "m", "d">>
PathText      == <<"t", ".", "t", "x", "t">>

\* the order in which the vault, the status matrix and the tree list paths
PathOrder == << PathNoteUpper, PathNoteLower, PathText >>
Paths == { PathOrder[i] : i \in 1..Len(PathOrder) }
MdPaths == { p \in Paths : endsWith(p, MdExt) }

TextLF     == <<"a", LF, "b">>
TextCRLF   == <<"a", CR, LF, "b">>
TextAccent == <<EAcute>>
Texts == { TextLF, TextCRLF, TextAccent }

RECURSIVE orderedFrom(_, _)
orderedFrom(S, i) ==
    IF i > Len(PathOrder) THEN <<>>
    ELSE (IF PathOrder[i] \in S THEN << PathOrder[i] >> ELSE <<>>) \o orderedFrom(S, i + 1)

RECURSIVE anyOrder(_)
anyOrder(S) == IF S = {} THEN <<>>
               ELSE LET x == CHOOSE y \in S : TRUE IN << x >> \o anyOrder(S \ {x})

\* the members of a set of paths as a list, in listing order; files made
\* while the program runs are listed after those of the universe
ordered(S) == orderedFrom(S, 1) \o anyOrder(S \ Paths)

(* ------------------------------------------------------------------ *)
(* Local Change Oracle: getGitChangedFiles                             *)
(* ------------------------------------------------------------------ *)

\* the status letter of one statusMatrix row [HEAD, workdir, stage]
gitStatusOf(row) ==
    LET HEADStatus == row[1]  WorkdirStatus == row[2]  StageStatus == row[3]
    IN  IF HEADStatus = 0 /\ WorkdirStatus = 1 THEN "A"
        ELSE IF HEADStatus = 1 /\ WorkdirStatus = 0 THEN "D"
        ELSE IF HEADStatus = 1 /\ WorkdirStatus = 2 THEN "M"
        ELSE IF HEADStatus = 0 /\ StageStatus = 1 THEN "A"
        ELSE IF HEADStatus = 1 /\ StageStatus = 0 THEN "D"
        ELSE "M"

UnchangedRow == <<1, 1, 1>>

RECURSIVE matrixChanges(_, _)
matrixChanges(matrix, rows) ==
    IF rows = <<>> THEN <<>>
    ELSE (IF matrix[Head(rows)] = UnchangedRow THEN <<>>
          ELSE << [file |-> Head(rows), status |-> gitStatusOf(matrix[Head(rows)])] >>)
         \o matrixChanges(matrix, Tail(rows))

\* vault.getMarkdownFiles()
getMarkdownFiles(vault) == ordered({ p \in DOMAIN vault : endsWith(p, MdExt) })

\* getGitChangedFiles: the changed rows of the status matrix, or, when the
\* local repository cannot be read, every markdown file as modified
getGitChangedFiles(available, matrix, vault) ==
    IF available
    THEN matrixChanges(matrix, ordered(DOMAIN matrix))
    ELSE LET md == getMarkdownFiles(vault)
         IN  [i \in 1..Len(md) |-> [file |-> md[i], status |-> "M"]]

(* ------------------------------------------------------------------ *)
(* Remote Tree Fetcher: fetchFileContentByBlob, fetchRemoteTree        *)
(* ------------------------------------------------------------------ *)

\* the answers of the remote service to one request
Responses == {"ok", "unauthorized", "notfound", "error", "network"}

\* fetchFileContentByBlob: the decoded text, or '' when the fetch fails
fetchFileContentByBlob(bytes, failed) == IF failed THEN <<>> ELSE utf8Decode(bytes)

EmptyTree == [p \in {} |-> [sha |-> NoSha, content |-> <<>>]]

\* a mutant of fetchRemoteTree: a 404 is answered with the tree all the same
fetchRemoteTreeDespite404(response, headTree, blobFailed) ==
    IF response \in {"ok", "notfound"}
    THEN [p \in { q \in DOMAIN headTree : endsWith(q, MdExt) } |->
            [sha |-> gitBlobSha(headTree[p]),
             content |-> fetchFileContentByBlob(headTree[p], p \in blobFailed)]]
    ELSE [p \in {} |-> [sha |-> NoSha, content |-> <<>>]]

\* a mutant of fetchRemoteTree: a blob whose content fetch failed is left out
fetchRemoteTreeDropsFailed(response, headTree, blobFailed) ==
    IF response = "ok"
    THEN [p \in { q \in DOMAIN headTree : endsWith(q, MdExt) /\ q \notin blobFailed } |->
            [sha |-> gitBlobSha(headTree[p]), content |-> utf8Decode(headTree[p])]]
    ELSE [p \in {} |-> [sha |-> NoSha, content |-> <<>>]]

\* fetchRemoteTree: path -> {sha, content} of every markdown blob of HEAD;
\* every failure (401, 404, other status, network) ends in the empty map
fetchRemoteTree(response, headTree, blobFailed) ==
    IF response = "ok"
    THEN [p \in { q \in DOMAIN headTree : endsWith(q, MdExt) } |->
            [sha |-> gitBlobSha(headTree[p]),
             content |-> fetchFileContentByBlob(headTree[p], p \in blobFailed)]]
    ELSE EmptyTree

(* ------------------------------------------------------------------ *)
(* Reconciliation Engine: checkForRemoteChanges and fetchDiffs         *)
(* ------------------------------------------------------------------ *)

\* one Sync Diff; a field the code leaves unset is "" (matchType) or the
\* empty path (localPath), both falsy as undefined is
Diff(filename, status, additions, deletions, localContent, remoteContent, sha, remoteSha, matchType, localPath) ==
    [filename |-> filename, status |-> status,
     additions |-> additions, deletions |-> deletions,
     localContent |-> localContent, remoteContent |-> remoteContent,
     sha |-> sha, remoteSha |-> remoteSha,
     matchType |-> matchType, localPath |-> localPath]

Max(a, b) == IF a >= b THEN a ELSE b

\* the positional line statistics of both passes: an index beyond `other`
\* is an addition, one beyond `own` a deletion, a differing shared index
\* an addition.  Pass A calls it with (local, remote), Pass B with
\* (remote, local).
lineStats(own, other) ==
    LET maxLines == Max(Len(own), Len(other))
    IN  [additions |-> Cardinality({ i \in 1..maxLines :
                           \/ i > Len(other)
                           \/ (i <= Len(own) /\ i <= Len(other) /\ own[i] # other[i]) }),
         deletions |-> Cardinality({ i \in 1..maxLines : i <= Len(other) /\ i > Len(own) })]

\* the verdict after a hash mismatch: the texts differ once their line
\* endings are normalised
contentDiffers(localContent, remoteContent) ==
    normalizeLineEndings(localContent) # normalizeLineEndings(remoteContent)

\* a mutant of caseInsensitiveGet: no file is found
caseInsensitiveGetNone(vault, key) == <<>>

\* localFilesCaseInsensitive.get(key): the last listed file with that
\* lower-cased path (a later Map.set overwrites an earlier one)
caseInsensitiveGet(vault, key) ==
    LET files == ordered(DOMAIN vault)
        hits  == { i \in 1..Len(files) : toLowerCase(files[i]) = key }
    IN  IF hits = {} THEN <<>>
        ELSE files[CHOOSE i \in hits : \A j \in hits : j <= i]

\* the diff, if any, that the remote sweep emits for one remote path
remoteSweepOne(vault, remoteTree, changed, remotePath) ==
    LET remoteFile == remoteTree[remotePath]
        exact      == remotePath \in DOMAIN vault
        ci         == caseInsensitiveGet(vault, toLowerCase(remotePath))
        useCi      == ~exact /\ ci # <<>> /\ ci # remotePath
        localPath  == IF exact THEN remotePath ELSE IF useCi THEN ci ELSE <<>>
        matchType  == IF useCi THEN "case-conflict" ELSE "exact"
    IN  IF remotePath \in changed \/ ~endsWith(remotePath, MdExt) THEN <<>>
        ELSE IF localPath = <<>>
        THEN << Diff(remotePath, "remote-only", 0,
                     Len(splitLines(remoteFile.content)),
                     <<>>, remoteFile.content, NoSha, remoteFile.sha, "none", <<>>) >>
        ELSE LET localContent     == vault[localPath]
                 remoteContent    == remoteFile.content
                 normalizedLocal  == normalizeLineEndings(localContent)
                 normalizedRemote == normalizeLineEndings(remoteContent)
                 stats == lineStats(splitLines(normalizedRemote), splitLines(normalizedLocal))
             IN  IF calculateContentHash(localContent) # remoteFile.sha
                 THEN IF contentDiffers(localContent, remoteContent)
                      THEN IF stats.additions > 0 \/ stats.deletions > 0
                           THEN << Diff(remotePath, "remote-modified",
                                        stats.additions, stats.deletions,
                                        localContent, remoteContent,
                                        NoSha, remoteFile.sha, matchType, localPath) >>
                           ELSE <<>>
                      ELSE IF matchType = "case-conflict"
                           THEN << Diff(remotePath, "case-conflict-only", 0, 0,
                                        localContent, remoteContent,
                                        NoSha, remoteFile.sha, matchType, localPath) >>
                           ELSE <<>>
                 ELSE IF matchType = "case-conflict"
                      THEN << Diff(remotePath, "case-conflict-only", 0, 0,
                                   localContent, remoteContent,
                                   NoSha, remoteFile.sha, matchType, localPath) >>
                      ELSE <<>>

RECURSIVE remoteSweep(_, _, _, _)
remoteSweep(vault, remoteTree, changed, remotePaths) ==
    IF remotePaths = <<>> THEN <<>>
    ELSE remoteSweepOne(vault, remoteTree, changed, Head(remotePaths))
         \o remoteSweep(vault, remoteTree, changed, Tail(remotePaths))

\* checkForRemoteChanges (Pass B): the diffs of the remote paths that the
\* oracle did not flag
checkForRemoteChanges(vault, remoteTree, gitChanges) ==
    remoteSweep(vault, remoteTree,
                { gitChanges[i].file : i \in 1..Len(gitChanges) },
                ordered(DOMAIN remoteTree))

\* the diff, if any, of one Local Change Record (the loop body of fetchDiffs)
localChangeOne(vault, remoteTree, gitChange) ==
    LET filePath == gitChange.file
    IN  IF ~endsWith(filePath, MdExt) THEN <<>>
        ELSE IF gitChange.status = "D"
        THEN IF filePath \in DOMAIN remoteTree
             THEN << Diff(filePath, "remote-only", 0,
                          Len(splitLines(remoteTree[filePath].content)),
                          <<>>, remoteTree[filePath].content,
                          remoteTree[filePath].sha, remoteTree[filePath].sha, "", <<>>) >>
             ELSE <<>>
        ELSE IF filePath \notin DOMAIN vault THEN <<>>
        ELSE LET localContent == vault[filePath]
             IN  IF filePath \notin DOMAIN remoteTree
                 THEN << Diff(filePath, "added", Len(splitLines(localContent)), 0,
                              localContent, <<>>, NoSha, NoSha, "", <<>>) >>
                 ELSE LET remoteFile       == remoteTree[filePath]
                          remoteContent    == remoteFile.content
                          normalizedLocal  == normalizeLineEndings(localContent)
                          normalizedRemote == normalizeLineEndings(remoteContent)
                          stats == lineStats(splitLines(normalizedLocal),
                                             splitLines(normalizedRemote))
                      IN  IF calculateContentHash(localContent) # remoteFile.sha
                             /\ contentDiffers(localContent, remoteContent)
                             /\ (stats.additions > 0 \/ stats.deletions > 0)
                          THEN << Diff(filePath, "modified",
                                       stats.additions, stats.deletions,
                                       localContent, remoteContent,
                                       remoteFile.sha, remoteFile.sha, "", <<>>) >>
                          ELSE <<>>

RECURSIVE localChanges(_, _, _)
localChanges(vault, remoteTree, gitChanges) ==
    IF gitChanges = <<>> THEN <<>>
    ELSE localChangeOne(vault, remoteTree, Head(gitChanges))
         \o localChanges(vault, remoteTree, Tail(gitChanges))

\* fetchDiffs: nothing at all when the oracle reports no change; otherwise
\* the remote sweep (Pass B) followed by the flagged paths (Pass A)
fetchDiffs(vault, gitChanges, remoteTree) ==
    IF Len(gitChanges) = 0 THEN <<>>
    ELSE checkForRemoteChanges(vault, remoteTree, gitChanges)
         \o localChanges(vault, remoteTree, gitChanges)

(* ------------------------------------------------------------------ *)
(* Pull Executor: pullRemoteChange                                     *)
(* ------------------------------------------------------------------ *)

\* findCaseInsensitiveFile: the first listed file whose path equals the
\* target case-insensitively and is not the target; the empty path if none
findCaseInsensitiveFile(vault, targetPath) ==
    LET files == ordered(DOMAIN vault)
        hits  == { i \in 1..Len(files) :
                     toLowerCase(files[i]) = toLowerCase(targetPath) /\ files[i] # targetPath }
    IN  IF hits = {} THEN <<>>
        ELSE files[CHOOSE i \in hits : \A j \in hits : i <= j]

\* originalPath.lastIndexOf('.'), 0 when there is no dot
lastDotIndex(path) ==
    LET dots == { i \in 1..Len(path) : path[i] = "." }
    IN  IF dots = {} THEN 0 ELSE CHOOSE i \in dots : \A j \in dots : j <= i

\* generateConflictPath: <name>-<type>-<timestamp><extension>
generateConflictPath(originalPath, conflictType, timestamp) ==
    LET dot == lastDotIndex(originalPath)
    IN  IF dot = 0
        THEN originalPath \o <<"-">> \o conflictType \o <<"-", timestamp>>
        ELSE SubSeq(originalPath, 1, dot - 1) \o <<"-">> \o conflictType
             \o <<"-", timestamp>> \o SubSeq(originalPath, dot, Len(originalPath))

RemoteWord == <<"r", "e", "m", "o", "t", "e">>
LocalWord  == <<"l", "o", "c", "a", "l">>

\* the result of a sequence of vault operations: the vault they leave and
\* whether one of them threw
Done(vault)  == [vault |-> vault, threw |-> FALSE]
Threw(vault) == [vault |-> vault, threw |-> TRUE]

\* vault.create: throws when a file with that path exists
vaultCreate(vault, path, text) ==
    IF path \in DOMAIN vault THEN Threw(vault)
    ELSE Done([q \in DOMAIN vault \cup {path} |-> IF q = path THEN text ELSE vault[q]])

\* a mutant of vaultModify: the file keeps its text
vaultModifyKeeps(vault, path, text) == Done(vault)

\* vault.modify of an existing file
vaultModify(vault, path, text) == Done([vault EXCEPT ![path] = text])

\* a mutant of conflictFiles: no copy of the local file is made
conflictFilesRemoteOnly(vault, remotePath, remoteContent, localPath, timestamp) ==
    vaultCreate(vault, generateConflictPath(remotePath, RemoteWord, timestamp), remoteContent)

\* the two sibling files of a case conflict: the remote text under a
\* remote-suffixed name, then a copy of the local file under a local-suffixed
\* name; reading a local file that is gone throws after the first was made
conflictFiles(vault, remotePath, remoteContent, localPath, timestamp) ==
    LET first == vaultCreate(vault, generateConflictPath(remotePath, RemoteWord, timestamp),
                             remoteContent)
    IN  IF first.threw THEN first
        ELSE IF localPath \notin DOMAIN vault THEN Threw(first.vault)
        ELSE vaultCreate(first.vault, generateConflictPath(localPath, LocalWord, timestamp),
                         vault[localPath])

\* pullRemoteChange: what applying one diff does to the vault.  A diff of
\* status remote-only (or added) matches no branch: nothing is written.
pullRemoteChange(vault, diff, timestamp) ==
    LET filePath == diff.filename
        conflictingFile == findCaseInsensitiveFile(vault, filePath)
    IN  IF diff.status = "remote-added"
        THEN IF conflictingFile # <<>>
             THEN conflictFiles(vault, filePath, diff.remoteContent, conflictingFile, timestamp)
             ELSE vaultCreate(vault, filePath, diff.remoteContent)
        ELSE IF diff.status = "remote-modified"
        THEN IF filePath \in DOMAIN vault
             THEN vaultModify(vault, filePath, diff.remoteContent)
             ELSE IF conflictingFile # <<>>
             THEN vaultModify(vault, conflictingFile, diff.remoteContent)
             ELSE vaultCreate(vault, filePath, diff.remoteContent)
        ELSE IF diff.status = "modified"
        THEN IF filePath \in DOMAIN vault
             THEN vaultModify(vault, filePath, diff.remoteContent)
             ELSE vaultCreate(vault, filePath, diff.remoteContent)
        ELSE IF diff.status = "case-conflict-only"
        THEN IF diff.localPath # <<>> /\ diff.localPath # filePath
             THEN conflictFiles(vault, filePath, diff.remoteContent, diff.localPath, timestamp)
             ELSE Done(vault)
        ELSE Done(vault)

(* ------------------------------------------------------------------ *)
(* Bounds                                                              *)
(* ------------------------------------------------------------------ *)

\* the number of Pull and Push runs a behaviour starts
MaxRuns == 1

\* the number of files one commit message counts
MaxFiles == 3

\* the number of runs that stamp the names of conflict files
MaxStamps == 1

(* ------------------------------------------------------------------ *)
(* State                                                               *)
(* ------------------------------------------------------------------ *)

VARIABLES
    local,              \* Local Document Store: path -> text of every file
    gitAvailable,       \* whether the vault is a readable git working tree
    statusMatrix,       \* git statusMatrix: path -> [HEAD, workdir, stage]
    refs,               \* remote branch references: name -> commit id, 0 if none
    commits,            \* remote commit objects: id -> [tree, parent]
    selectedRepository, \* settings.selectedRepository ("" when none)
    deviceName,         \* settings.deviceName
    githubToken,        \* settings.githubToken
    username,           \* settings.username ("" when not logged in)
    repositories,       \* settings.repositories
    pending,            \* the requests of the settings tab that are in flight
    currentDiffs,       \* SyncView.currentDiffs
    syncDisabled,       \* syncButton.disabled
    pullDisabled,       \* pullButton.disabled
    pushDisabled,       \* pushButton.disabled
    pc,                 \* the position of the run in flight, "idle" if none
    run,                \* the locals of the run in flight
    lastRecon,          \* what the last fetchDiffs call read and returned
    notice,             \* the outcome last shown to the user
    clock               \* the time, as generateConflictPath stamps it

worldVars == << local, gitAvailable, statusMatrix, refs, commits, selectedRepository,
               deviceName, githubToken, username, repositories, pending >>
viewVars  == << currentDiffs, syncDisabled, pullDisabled, pushDisabled, pc, run,
                lastRecon, notice, clock >>
vars == << worldVars, viewVars >>

Restrict(f, S) == [x \in S |-> f[x]]

Branches == << "main", "master" >>
BranchNames == { Branches[i] : i \in 1..Len(Branches) }

\* the branch HEAD names: the first of main, master that exists
headCommit == IF refs["main"] # 0 THEN refs["main"] ELSE refs["master"]

\* the tree of the commit HEAD resolves to (path -> blob bytes)
headTree == IF headCommit = 0 THEN << >> ELSE commits[headCommit].tree

\* the answer of GET git/trees/HEAD, given what the service would answer
\* if the repository were reachable
treeResponse(response) ==
    IF selectedRepository = "" THEN "notfound"
    ELSE IF response = "ok" /\ headCommit = 0 THEN "notfound" ELSE response

NoRun == [kind |-> "none", diffs |-> << >>, next |-> 1, processed |-> << >>,
          tip |-> 0, resolvedBranch |-> "", tipBranch |-> "", remoteFilesSet |-> {},
          fileBlobs |-> << >>, deletions |-> << >>, newTree |-> << >>,
          treeItems |-> << >>, commit |-> 0, refAttempts |-> << >>, steps |-> << >>, before |-> << >>]

NoRecon == [ran |-> FALSE, gitChanges |-> << >>, vault |-> << >>,
            headTree |-> << >>, response |-> "", blobFailed |-> {},
            remoteTree |-> EmptyTree, diffs |-> << >>]

\* a mutant of PullStatuses: a remote-only diff does not count for Pull
PullStatusesNoRemoteOnly == {"remote-modified", "case-conflict-only", "modified"}

\* the diff statuses the Pull handler applies and the Push handler publishes
PullStatuses == {"remote-modified", "case-conflict-only", "modified", "remote-only"}
PushStatuses == {"added", "modified", "remote-only"}

hasStatus(diffs, statuses) == \E i \in 1..Len(diffs) : diffs[i].status \in statuses

\* Array.prototype.filter on the diff list
filterStatus(diffs, statuses) == SelectSeq(diffs, LAMBDA d : d.status \in statuses)

(* ------------------------------------------------------------------ *)
(* Local version control: what vault writes and commitLocalChanges do  *)
(* to the status matrix                                                *)
(* ------------------------------------------------------------------ *)

\* the rows after the vault went from `before` to `after`: a written file
\* differs from HEAD, or is new and untracked
touchRows(matrix, before, after) ==
    IF ~gitAvailable THEN matrix
    ELSE LET written == { q \in DOMAIN after : q \notin DOMAIN before \/ before[q] # after[q] }
         IN  [q \in DOMAIN matrix \cup written |->
                IF q \notin written THEN matrix[q]
                ELSE IF q \in DOMAIN matrix /\ matrix[q][1] = 1
                     THEN <<1, 2, matrix[q][3]>>
                     ELSE <<0, 2, 0>>]

\* commitLocalChanges: git add of every processed path, then git commit.
\* Every error is caught and logged: without a readable repository, when a
\* processed path is not in the working tree (git add throws), or when the
\* commit itself fails, nothing is committed.
commitLocalChanges(matrix, vault, processedFiles, commitOk) ==
    LET files == { processedFiles[i] : i \in 1..Len(processedFiles) }
    IN  IF gitAvailable /\ commitOk /\ files \subseteq DOMAIN vault
        THEN [committed |-> TRUE,
              matrix |-> [q \in { x \in DOMAIN matrix \cup files :
                                    ~(x \notin files /\ matrix[x] = <<1, 0, 0>>) } |->
                            IF q \in files THEN <<1, 1, 1>>
                            ELSE IF matrix[q] = <<1, 1, 0>> THEN <<0, 2, 0>>
                            ELSE matrix[q]]]
        ELSE [committed |-> FALSE, matrix |-> matrix]

(* ------------------------------------------------------------------ *)
(* Remote Repository Service                                           *)
(* ------------------------------------------------------------------ *)

\* requests for an unselected repository ('repos//git/...') find nothing
answer(response) == IF selectedRepository = "" THEN "notfound" ELSE response

\* the characters String.prototype.trim removes
Whitespace == {" ", "\t", LF, CR}

\* deviceName.trim()
RECURSIVE trim(_)
trim(s) ==
    IF s = << >> THEN s
    ELSE IF Head(s) \in Whitespace THEN trim(Tail(s))
    ELSE IF s[Len(s)] \in Whitespace THEN trim(SubSeq(s, 1, Len(s) - 1))
    ELSE s

\* a mutant of generateCommitMessage: the plural suffix whatever the count
generateCommitMessagePlural(processedFiles) ==
    IF deviceName # << >> /\ trim(deviceName) # << >>
    THEN <<"s", "y", "n", "c", ":", " ">> \o deviceName
         \o <<" ", "u", "p", "d", "a", "t", "e", "d", " ">>
         \o << ToString(Len(processedFiles)) >> \o <<" ", "f", "i", "l", "e", "s">>
    ELSE <<"s", "y", "n", "c", ":", " ", "u", "p", "d", "a", "t", "e", "d", " ">>
         \o << ToString(Len(processedFiles)) >> \o <<" ", "f", "i", "l", "e", "s">>

\* generateCommitMessage: the text as a sequence of characters, the file
\* count as one decimal numeral
generateCommitMessage(processedFiles) ==
    LET fileCount == Len(processedFiles)
        suffix    == IF fileCount = 1 THEN << >> ELSE <<"s">>
    IN  IF deviceName # << >> /\ trim(deviceName) # << >>
        THEN <<"s", "y", "n", "c", ":", " ">> \o deviceName
             \o <<" ", "u", "p", "d", "a", "t", "e", "d", " ">>
             \o << ToString(fileCount) >> \o <<" ", "f", "i", "l", "e">> \o suffix
        ELSE <<"s", "y", "n", "c", ":", " ", "u", "p", "d", "a", "t", "e", "d", " ">>
             \o << ToString(fileCount) >> \o <<" ", "f", "i", "l", "e">> \o suffix

\* createCommit: the commit object the service stores
createCommit(treeSha, parentSha, processedFiles) ==
    [tree |-> treeSha, parent |-> parentSha,
     message |-> generateCommitMessage(processedFiles)]

\* commit a is commit b or an ancestor of b
RECURSIVE isAncestor(_, _)
isAncestor(a, b) ==
    IF b = 0 THEN FALSE
    ELSE IF a = b THEN TRUE
    ELSE isAncestor(a, commits[b].parent)

\* GET git/ref/heads/<branch>
refResponse(response, branch) ==
    IF answer(response) = "ok" /\ refs[branch] = 0 THEN "notfound" ELSE answer(response)

\* PATCH git/refs/heads/<branch> without force: a missing branch is not
\* found, an update that is no fast-forward is rejected
patchResponse(response, branch, commitSha) ==
    IF answer(response) # "ok" THEN answer(response)
    ELSE IF refs[branch] = 0 THEN "notfound"
    ELSE IF ~isAncestor(refs[branch], commitSha) THEN "error"
    ELSE "ok"

\* getCurrentBranchSha: the tip of main; of master when main is not found;
\* null (0) on any other answer
getCurrentBranchSha(respMain, respMaster) ==
    IF refResponse(respMain, "main") = "ok" THEN refs["main"]
    ELSE IF refResponse(respMain, "main") = "notfound"
            /\ refResponse(respMaster, "master") = "ok" THEN refs["master"]
    ELSE 0

\* the branch whose tip getCurrentBranchSha returns, "" when it returns null
resolvedBranch(respMain, respMaster) ==
    IF refResponse(respMain, "main") = "ok" THEN "main"
    ELSE IF refResponse(respMain, "main") = "notfound"
            /\ refResponse(respMaster, "master") = "ok" THEN "master"
    ELSE ""

\* the PATCH requests updateBranchRef makes, in order, with their answers
refUpdateAttempts(respMain, respMaster, commitSha) ==
    LET first  == [branch |-> "main",
                   response |-> patchResponse(respMain, "main", commitSha)]
        second == [branch |-> "master",
                   response |-> patchResponse(respMaster, "master", commitSha)]
    IN  IF first.response = "ok" THEN << first >> ELSE << first, second >>

\* a mutant of updateBranchRef: only main is tried
updateBranchRefMainOnly(respMain, respMaster, commitSha) ==
    IF patchResponse(respMain, "main", commitSha) = "ok" THEN "main" ELSE ""

\* updateBranchRef: the branch that gets advanced, "" when the call throws.
\* main is tried first; master is tried when main is not found and also
\* when the update of main failed in any other way.
updateBranchRef(respMain, respMaster, commitSha) ==
    IF patchResponse(respMain, "main", commitSha) = "ok" THEN "main"
    ELSE IF patchResponse(respMaster, "master", commitSha) = "ok" THEN "master"
    ELSE ""

\* a mutant of treeItems: the deletions are left out
treeItemsBlobsOnly(fileBlobs, deletions) ==
    [i \in 1..Len(fileBlobs) |-> [path |-> fileBlobs[i].path, sha |-> fileBlobs[i].sha]]

\* the entries createTree sends: one per blob, then one with a null sha
\* (NoSha) per deletion
treeItems(fileBlobs, deletions) ==
    [i \in 1..Len(fileBlobs) |-> [path |-> fileBlobs[i].path, sha |-> fileBlobs[i].sha]]
    \o [i \in 1..Len(deletions) |-> [path |-> deletions[i], sha |-> NoSha]]

\* createTree: the tree of the base commit with the entries applied, a
\* null sha removing the path and a later entry of a path replacing an
\* earlier one.  The service refuses a null-sha entry for a path the base
\* tree does not hold.
createTree(response, baseSha, fileBlobs, deletions) ==
    LET base    == commits[baseSha].tree
        items   == treeItems(fileBlobs, deletions)
        last(q) == items[CHOOSE i \in 1..Len(items) :
                            items[i].path = q
                            /\ \A j \in 1..Len(items) : items[j].path = q => j <= i]
        named   == { items[i].path : i \in 1..Len(items) }
        removed == { q \in named : last(q).sha = NoSha }
        nulled  == { items[i].path : i \in { k \in 1..Len(items) : items[k].sha = NoSha } }
    IN  IF answer(response) # "ok" \/ ~(nulled \subseteq DOMAIN base)
        THEN [ok |-> FALSE, tree |-> << >>, items |-> items]
        ELSE [ok |-> TRUE, items |-> items,
              tree |-> [q \in (DOMAIN base \cup named) \ removed |->
                          IF q \in named THEN last(q).sha.data ELSE base[q]]]

(* ------------------------------------------------------------------ *)
(* Initial states                                                      *)
(* ------------------------------------------------------------------ *)

Absent == << "<absent>" >>
NoRow  == << -1, -1, -1 >>

\* rows the status matrix can hold for a file that is in the working tree:
\* unmodified, new and untracked, modified, deletion staged but file kept
PresentRows == { <<1, 1, 1>>, <<0, 2, 0>>, <<1, 2, 1>>, <<1, 1, 0>> }
\* and for a path that is not: no row at all, or deleted and unstaged
AbsentRows  == { NoRow, <<1, 0, 1>> }

\* the personal access tokens the token field can hold: none, and those of
\* two accounts
NoToken == << >>
TokenA  == <<"a">>
TokenB  == <<"b">>
Tokens  == { NoToken, TokenA, TokenB }

\* what the remote service knows of the account a token belongs to: its
\* login and the repositories GET /user/repos lists
Accounts ==
    [t \in {TokenA, TokenB} |->
        IF t = TokenA THEN [login |-> "owner", repos |-> << "owner/repo" >>]
                      ELSE [login |-> "other", repos |-> << "other/vault", "other/blog" >>]]

\* no request of that kind is in flight
NoRequest == << "<none>" >>

\* the settings of a user who logged in with the first token and listed the
\* repositories
SettingsInit ==
    /\ githubToken = TokenA
    /\ username = Accounts[TokenA].login
    /\ repositories = Accounts[TokenA].repos
    /\ pending = [login |-> NoRequest, repos |-> NoRequest]

\* the view as onOpen builds it for a selected repository
ViewInit ==
    /\ selectedRepository = "owner/repo"
    /\ currentDiffs = << >>
    /\ syncDisabled = FALSE
    /\ pullDisabled = TRUE
    /\ pushDisabled = TRUE
    /\ pc = "idle"
    /\ run = NoRun
    /\ lastRecon = NoRecon
    /\ notice = ""
    /\ clock = 0

\* one remote branch, main or master, holding one commit
RemoteInitOn(files, branch) ==
    /\ commits = << [tree |-> [p \in DOMAIN files |-> utf8Encode(files[p])], parent |-> 0,
                    message |-> << >>] >>
    /\ refs = [b \in BranchNames |-> IF b = branch THEN 1 ELSE 0]

\* two remote branches: main holds the files, master is one commit behind
RemoteInitBoth(files) ==
    /\ commits = << [tree |-> << >>, parent |-> 0, message |-> << >>],
                    [tree |-> [p \in DOMAIN files |-> utf8Encode(files[p])], parent |-> 1,
                     message |-> << >>] >>
    /\ refs = [b \in BranchNames |-> IF b = "main" THEN 2 ELSE 1]

\* one remote branch, main, holding one commit
RemoteInit(files) ==
    /\ commits = << [tree |-> [p \in DOMAIN files |-> utf8Encode(files[p])], parent |-> 0,
                    message |-> << >>] >>
    /\ refs = [b \in BranchNames |-> IF b = "main" THEN 1 ELSE 0]

\* every vault, status matrix and remote tree over the universe; the one
\* file that is no markdown document is on both sides or on neither
InitRecon ==
    /\ ViewInit
    /\ SettingsInit
    /\ deviceName = << >>
    /\ \E l \in [Paths -> Texts \cup {Absent}], r \in [Paths -> Texts \cup {Absent}],
          m \in [Paths -> PresentRows \cup AbsentRows] :
          /\ \A p \in Paths \ MdPaths :
                /\ l[p] \in {Absent, TextLF} /\ r[p] = l[p]
                /\ m[p] \in {NoRow, <<1, 1, 1>>, <<1, 2, 1>>}
          /\ \A p \in Paths : IF l[p] = Absent THEN m[p] \in AbsentRows
                                               ELSE m[p] \in PresentRows
          /\ local = Restrict(l, { p \in Paths : l[p] # Absent })
          /\ RemoteInit(Restrict(r, { p \in Paths : r[p] # Absent }))
          /\ \/ /\ gitAvailable = TRUE
                /\ statusMatrix = Restrict(m, { p \in Paths : m[p] # NoRow })
             \/ /\ gitAvailable = FALSE
                /\ \A p \in Paths : m[p] = (IF l[p] = Absent THEN NoRow ELSE <<1, 1, 1>>)
                /\ statusMatrix = << >>

(* ------------------------------------------------------------------ *)
(* Sync: handleSyncClick                                               *)
(* ------------------------------------------------------------------ *)

\* one call of fetchDiffs against the world as it is, with the answers the
\* remote service gives to the tree request and to the blob requests
reconcile(vault, matrix, response, blobFailed) ==
    LET gitChanges == getGitChangedFiles(gitAvailable, matrix, vault)
        remoteTree == fetchRemoteTree(treeResponse(response), headTree, blobFailed)
    IN  [ran |-> TRUE, gitChanges |-> gitChanges, vault |-> vault,
         headTree |-> headTree, response |-> treeResponse(response),
         blobFailed |-> blobFailed, remoteTree |-> remoteTree,
         diffs |-> fetchDiffs(vault, gitChanges, remoteTree)]

\* the blob requests that can fail: those of the markdown blobs of HEAD
BlobFailures(response) ==
    IF treeResponse(response) = "ok"
    THEN SUBSET { p \in DOMAIN headTree : endsWith(p, MdExt) }
    ELSE { {} }

\* a mutant of SyncClick: only the Sync button is disabled
SyncClickOwnButton ==
    /\ ~syncDisabled
    /\ syncDisabled' = TRUE
    /\ pc' = "sync"
    /\ run' = [NoRun EXCEPT !.kind = "sync"]
    /\ UNCHANGED << worldVars, pullDisabled, pushDisabled, currentDiffs, lastRecon,
                    notice, clock >>

\* the click: all three buttons are disabled before the first await
SyncClick ==
    /\ ~syncDisabled
    /\ syncDisabled' = TRUE
    /\ pullDisabled' = TRUE
    /\ pushDisabled' = TRUE
    /\ pc' = "sync"
    /\ run' = [NoRun EXCEPT !.kind = "sync"]
    /\ UNCHANGED << worldVars, currentDiffs, lastRecon, notice, clock >>

\* fetchDiffs returns: the list replaces the old one and decides the buttons
SyncDone ==
    /\ pc = "sync"
    /\ selectedRepository # ""
    /\ \E response \in Responses : \E blobFailed \in BlobFailures(response) :
          \E recon \in { reconcile(local, statusMatrix, response, blobFailed) } :
              /\ lastRecon' = recon
              /\ currentDiffs' = recon.diffs
              /\ syncDisabled' = FALSE
              /\ pullDisabled' = ~hasStatus(recon.diffs, PullStatuses)
              /\ pushDisabled' = ~hasStatus(recon.diffs, PushStatuses)
    /\ pc' = "idle"
    /\ run' = NoRun
    /\ notice' = "sync-ok"
    /\ UNCHANGED << worldVars, clock >>

\* fetchDiffs throws ('No repository selected'): the error is shown
SyncFailed ==
    /\ pc = "sync"
    /\ selectedRepository = ""
    /\ syncDisabled' = FALSE
    /\ pullDisabled' = TRUE
    /\ pushDisabled' = TRUE
    /\ pc' = "idle"
    /\ run' = NoRun
    /\ notice' = "sync-error"
    /\ UNCHANGED << worldVars, currentDiffs, lastRecon, clock >>

NextRecon == SyncClick \/ SyncDone

SpecRecon == InitRecon /\ [][NextRecon]_vars

(* ------------------------------------------------------------------ *)
(* Pull: handlePullClick, performPull                                  *)
(* ------------------------------------------------------------------ *)

\* a mutant of localCommitRaises: a failed local commit raises
localCommitRaisesOnFailure(git) == ~git.committed

\* commitLocalChanges catches every error and only warns: it never raises
localCommitRaises(git) == FALSE

\* performPull or performPush returned: the local commit was tried and the
\* handler shows its success notice
runSucceeded(git) ==
    << [step |-> "local-commit", ok |-> git.committed], [step |-> "success", ok |-> TRUE] >>

\* the diff statuses that re-enable Pull and Push after a pull or a push
PullStatusesAfterRun == {"remote-modified", "case-conflict-only", "modified"}
PushStatusesAfterPull == {"added", "modified", "remote-only"}
PushStatusesAfterPush == {"added", "modified", "deleted"}

\* the diffs for which pullRemoteChange calls the vault at all
writesVault(diff) ==
    diff.status \in {"remote-added", "remote-modified", "modified", "case-conflict-only"}

\* the timestamp generateConflictPath puts into a name
timestamp == ToString(clock)

\* the click: the buttons are disabled and the pullable diffs selected; with
\* none to pull the handler returns at once
PullClick ==
    /\ ~pullDisabled
    /\ clock < MaxRuns
    /\ clock' = clock + 1
    /\ LET remoteDiffs == filterStatus(currentDiffs, PullStatuses)
       IN  IF Len(remoteDiffs) = 0
           THEN /\ pullDisabled' = FALSE
                /\ syncDisabled' = FALSE
                /\ pushDisabled' = TRUE
                /\ pc' = "idle"
                /\ run' = NoRun
                /\ notice' = "nothing-to-pull"
           ELSE /\ pullDisabled' = TRUE
                /\ syncDisabled' = TRUE
                /\ pushDisabled' = TRUE
                /\ pc' = "pull"
                /\ run' = [NoRun EXCEPT !.kind = "pull", !.diffs = remoteDiffs]
                /\ notice' = notice
    /\ UNCHANGED << worldVars, currentDiffs, lastRecon >>

\* a mutant of PullFails: the Pull button stays disabled
PullFailsPullOff ==
    /\ pullDisabled' = TRUE
    /\ syncDisabled' = FALSE
    /\ pushDisabled' = pushDisabled
    /\ pc' = "idle"
    /\ notice' = "pull-failed"

\* the catch block of handlePullClick
PullFails ==
    /\ pullDisabled' = FALSE
    /\ syncDisabled' = FALSE
    /\ pushDisabled' = pushDisabled
    /\ pc' = "idle"
    /\ notice' = "pull-failed"

\* the loop of performPull goes on to the next diff
PullGoesOn(ok) ==
    /\ run' = [run EXCEPT !.next = @ + 1,
                          !.processed = Append(@, run.diffs[run.next].filename),
                          !.steps = Append(@, [step |-> "apply", ok |-> ok])]
    /\ UNCHANGED << pullDisabled, syncDisabled, pushDisabled, pc, notice >>

\* a mutant of PullAborts: the failure is logged and the loop goes on
PullAbortsGoesOn == PullGoesOn(FALSE)

\* the catch block of the loop rethrows: the run ends in the handler's catch
PullAborts ==
    /\ PullFails
    /\ run' = [run EXCEPT !.steps = Append(@, [step |-> "apply", ok |-> FALSE])]

\* one iteration of performPull's loop: the diff is applied to the vault; a
\* throwing vault operation ends the pull
PullStep ==
    /\ pc = "pull"
    /\ run.next <= Len(run.diffs)
    /\ \E ioOk \in BOOLEAN :
       \E res \in { IF ioOk THEN pullRemoteChange(local, run.diffs[run.next], timestamp)
                            ELSE Threw(local) } :
          /\ ioOk \/ writesVault(run.diffs[run.next])
          /\ local' = res.vault
          /\ statusMatrix' = touchRows(statusMatrix, local, res.vault)
          /\ IF res.threw THEN PullAborts ELSE PullGoesOn(TRUE)
    /\ UNCHANGED << gitAvailable, refs, commits, selectedRepository, deviceName, githubToken, username,
                    repositories, pending,
                    currentDiffs, lastRecon, clock >>

\* the end of performPull and of the handler: the local commit, the success
\* notice, then a fresh reconciliation that decides the buttons
PullFinish ==
    /\ pc = "pull"
    /\ run.next > Len(run.diffs)
    /\ \E commitOk \in BOOLEAN :
       \E git \in { commitLocalChanges(statusMatrix, local, run.processed, commitOk) } :
          /\ statusMatrix' = git.matrix
          /\ IF localCommitRaises(git)
             THEN /\ PullFails
                  /\ run' = [run EXCEPT !.steps = Append(@, [step |-> "local-commit",
                                                             ok |-> FALSE])]
                  /\ UNCHANGED << currentDiffs, lastRecon >>
             ELSE IF selectedRepository = ""
             THEN /\ PullFails
                  /\ run' = [run EXCEPT !.steps = @ \o runSucceeded(git)
                                                    \o << [step |-> "refresh", ok |-> FALSE] >>]
                  /\ UNCHANGED << currentDiffs, lastRecon >>
             ELSE \E response \in Responses : \E blobFailed \in BlobFailures(response) :
                  \E recon \in { reconcile(local, git.matrix, response, blobFailed) } :
                      /\ lastRecon' = recon
                      /\ currentDiffs' = recon.diffs
                      /\ syncDisabled' = FALSE
                      /\ pullDisabled' = ~hasStatus(recon.diffs, PullStatusesAfterRun)
                      /\ pushDisabled' = ~hasStatus(recon.diffs, PushStatusesAfterPull)
                      /\ pc' = "idle"
                      /\ notice' = "pull-ok"
                      /\ run' = [run EXCEPT !.steps = @ \o runSucceeded(git)]
    /\ UNCHANGED << local, gitAvailable, refs, commits, selectedRepository, deviceName, githubToken, username,
                    repositories, pending, clock >>

(* ------------------------------------------------------------------ *)
(* Push: handlePushClick, performPush                                  *)
(* ------------------------------------------------------------------ *)

\* the click: the buttons are disabled and the pushable diffs selected; with
\* none to push the handler returns at once
PushClick ==
    /\ ~pushDisabled
    /\ clock < MaxRuns
    /\ clock' = clock + 1
    /\ LET pushableDiffs == filterStatus(currentDiffs, PushStatuses)
       IN  IF Len(pushableDiffs) = 0
           THEN /\ pushDisabled' = FALSE
                /\ syncDisabled' = FALSE
                /\ pullDisabled' = TRUE
                /\ pc' = "idle"
                /\ run' = NoRun
                /\ notice' = "nothing-to-push"
           ELSE /\ pushDisabled' = TRUE
                /\ syncDisabled' = TRUE
                /\ pullDisabled' = TRUE
                /\ pc' = "push-tip"
                /\ run' = [NoRun EXCEPT !.kind = "push", !.diffs = pushableDiffs,
                                        !.before = refs]
                /\ notice' = notice
    /\ UNCHANGED << worldVars, currentDiffs, lastRecon >>

\* the catch block of handlePushClick, after the step named failed
PushFails(step) ==
    /\ pushDisabled' = FALSE
    /\ syncDisabled' = FALSE
    /\ pullDisabled' = pullDisabled
    /\ pc' = "idle"
    /\ notice' = "push-failed"
    /\ run' = [run EXCEPT !.steps = Append(@, [step |-> step, ok |-> FALSE])]

\* updateBranchRef throws after the requests it made
PushRefFails(attempts) ==
    /\ pushDisabled' = FALSE
    /\ syncDisabled' = FALSE
    /\ pullDisabled' = pullDisabled
    /\ pc' = "idle"
    /\ notice' = "push-failed"
    /\ run' = [run EXCEPT !.refAttempts = attempts,
                          !.steps = Append(@, [step |-> "ref", ok |-> FALSE])]

\* the refresh after a push throws: the success notice was shown before it
PushRefreshFails(git) ==
    /\ pushDisabled' = FALSE
    /\ syncDisabled' = FALSE
    /\ pullDisabled' = pullDisabled
    /\ pc' = "idle"
    /\ notice' = "push-failed"
    /\ run' = [run EXCEPT !.steps = @ \o runSucceeded(git)
                                      \o << [step |-> "refresh", ok |-> FALSE] >>]

\* the step named succeeded and the run goes on at position `to`
PushGoes(step, ok, to, r) ==
    /\ pc' = to
    /\ run' = [r EXCEPT !.steps = Append(@, [step |-> step, ok |-> ok])]
    /\ UNCHANGED << pushDisabled, syncDisabled, pullDisabled, notice >>

\* step 1: getCurrentBranchSha; without a tip performPush throws
PushResolveTip ==
    /\ pc = "push-tip"
    /\ \E respMain, respMaster \in Responses :
          LET sha == getCurrentBranchSha(respMain, respMaster)
          IN  IF sha = 0 THEN PushFails("tip")
              ELSE PushGoes("tip", TRUE, "push-tree",
                            [run EXCEPT !.tip = sha,
                                        !.resolvedBranch = resolvedBranch(respMain, respMaster)])
    /\ UNCHANGED << worldVars, currentDiffs, lastRecon, clock >>

\* step 2: fetchRemoteTree for the deletion check; it never throws, a
\* failed fetch is an empty tree
PushFetchTree ==
    /\ pc = "push-tree"
    /\ \E response \in Responses :
          PushGoes("tree", treeResponse(response) = "ok", "push-diffs",
                   [run EXCEPT !.remoteFilesSet =
                        DOMAIN fetchRemoteTree(treeResponse(response), headTree, {})])
    /\ UNCHANGED << worldVars, currentDiffs, lastRecon, clock >>

\* a mutant of markedForDeletion: every remote-only diff is queued
markedForDeletionAlways(diff, remoteFilesSet) == TRUE

\* the deletion check of performPush: remoteFilesSet.has(diff.filename)
markedForDeletion(diff, remoteFilesSet) == diff.filename \in remoteFilesSet

\* step 3, one iteration: a remote-only diff is queued for deletion when the
\* fetched tree holds its path and skipped otherwise; any other diff gets a
\* blob made of its localContent
PushDiff ==
    /\ pc = "push-diffs"
    /\ run.next <= Len(run.diffs)
    /\ LET diff == run.diffs[run.next]
           done(r) == [r EXCEPT !.next = @ + 1, !.processed = Append(@, diff.filename)]
       IN  IF diff.status \in {"remote-only", "remote-added"}
           THEN IF markedForDeletion(diff, run.remoteFilesSet)
                THEN PushGoes("delete", TRUE, "push-diffs",
                              done([run EXCEPT !.deletions = Append(@, diff.filename)]))
                ELSE PushGoes("skip", TRUE, "push-diffs", done(run))
           ELSE \E response \in Responses :
                   IF answer(response) = "ok"
                   THEN PushGoes("blob", TRUE, "push-diffs",
                                 done([run EXCEPT !.fileBlobs = Append(@,
                                        [path |-> diff.filename,
                                         sha |-> gitBlobSha(utf8Encode(diff.localContent))])]))
                   ELSE PushFails("blob")
    /\ UNCHANGED << worldVars, currentDiffs, lastRecon, clock >>

\* step 4: createTree on the tip's tree
PushCreateTree ==
    /\ pc = "push-diffs"
    /\ run.next > Len(run.diffs)
    /\ \E response \in Responses :
       \E made \in { createTree(response, run.tip, run.fileBlobs, run.deletions) } :
          IF made.ok
          THEN PushGoes("new-tree", TRUE, "push-commit",
                        [run EXCEPT !.newTree = made.tree, !.treeItems = made.items])
          ELSE PushFails("new-tree")
    /\ UNCHANGED << worldVars, currentDiffs, lastRecon, clock >>

\* step 5: createCommit with the tip as the only parent
PushCreateCommit ==
    /\ pc = "push-commit"
    /\ \E response \in Responses :
          IF answer(response) = "ok"
          THEN /\ commits' = Append(commits, createCommit(run.newTree, run.tip, run.processed))
               /\ PushGoes("commit", TRUE, "push-ref", [run EXCEPT !.commit = Len(commits) + 1])
          ELSE /\ commits' = commits
               /\ PushFails("commit")
    /\ UNCHANGED << local, gitAvailable, statusMatrix, refs, selectedRepository, deviceName, githubToken, username,
                    repositories, pending,
                    currentDiffs, lastRecon, clock >>

\* step 6: updateBranchRef
PushUpdateRef ==
    /\ pc = "push-ref"
    /\ \E respMain, respMaster \in Responses :
          LET branch   == updateBranchRef(respMain, respMaster, run.commit)
              attempts == refUpdateAttempts(respMain, respMaster, run.commit)
          IN  IF branch = ""
              THEN /\ refs' = refs
                   /\ PushRefFails(attempts)
              ELSE /\ refs' = [refs EXCEPT ![branch] = run.commit]
                   /\ PushGoes("ref", TRUE, "push-local",
                               [run EXCEPT !.tipBranch = branch, !.refAttempts = attempts])
    /\ UNCHANGED << local, gitAvailable, statusMatrix, commits, selectedRepository, deviceName, githubToken, username,
                    repositories, pending,
                    currentDiffs, lastRecon, clock >>

\* step 7 and the end of the handler: the local commit, the success notice,
\* then a fresh reconciliation that decides the buttons
PushFinish ==
    /\ pc = "push-local"
    /\ \E commitOk \in BOOLEAN :
       \E git \in { commitLocalChanges(statusMatrix, local, run.processed, commitOk) } :
          /\ statusMatrix' = git.matrix
          /\ IF localCommitRaises(git)
             THEN /\ PushFails("local-commit")
                  /\ UNCHANGED << currentDiffs, lastRecon >>
             ELSE IF selectedRepository = ""
             THEN /\ PushRefreshFails(git)
                  /\ UNCHANGED << currentDiffs, lastRecon >>
             ELSE \E response \in Responses : \E blobFailed \in BlobFailures(response) :
                  \E recon \in { reconcile(local, git.matrix, response, blobFailed) } :
                      /\ lastRecon' = recon
                      /\ currentDiffs' = recon.diffs
                      /\ syncDisabled' = FALSE
                      /\ pullDisabled' = ~hasStatus(recon.diffs, PullStatusesAfterRun)
                      /\ pushDisabled' = ~hasStatus(recon.diffs, PushStatusesAfterPush)
                      /\ pc' = "idle"
                      /\ notice' = "push-ok"
                      /\ run' = [run EXCEPT !.steps = @ \o runSucceeded(git)]
    /\ UNCHANGED << local, gitAvailable, refs, commits, selectedRepository, deviceName, githubToken, username,
                    repositories, pending, clock >>

(* ------------------------------------------------------------------ *)
(* Settings that the view reads                                        *)
(* ------------------------------------------------------------------ *)

\* a mutant of TokenChanged: the repository list is kept
TokenChangedKeepsList ==
    \E value \in Tokens :
        /\ value # githubToken
        /\ githubToken' = value
        /\ username' = ""
        /\ selectedRepository' = ""
        /\ UNCHANGED << local, gitAvailable, statusMatrix, refs, commits, deviceName,
                        repositories, pending, viewVars >>

\* the token field changes to another value: the token is stored, then the
\* username, the repository list and the selected repository are cleared
TokenChanged ==
    \E value \in Tokens :
        /\ value # githubToken
        /\ githubToken' = value
        /\ username' = ""
        /\ repositories' = << >>
        /\ selectedRepository' = ""
        /\ UNCHANGED << local, gitAvailable, statusMatrix, refs, commits, deviceName,
                        pending, viewVars >>

\* the dropdown, shown to a logged-in user with a non-empty list, changes to
\* one of the listed repositories or to its empty option
RepositorySelected ==
    /\ username # "" /\ Len(repositories) > 0
    /\ \E value \in {""} \cup { repositories[i] : i \in 1..Len(repositories) } :
          /\ value # selectedRepository
          /\ selectedRepository' = value
    /\ UNCHANGED << local, gitAvailable, statusMatrix, refs, commits, deviceName,
                    githubToken, username, repositories, pending, viewVars >>

\* the answer of the service to a request that carries a token
authResponse(response, token) ==
    IF response = "ok" /\ token \notin DOMAIN Accounts THEN "unauthorized" ELSE response

\* checkGitHubAuth: the login of the token's account, '' on an empty token,
\* a 401, any other status or a network failure
checkGitHubAuth(token, response) ==
    IF trim(token) = << >> THEN ""
    ELSE IF authResponse(response, token) = "ok" THEN Accounts[token].login
    ELSE ""

\* fetchGitHubRepositories
fetchGitHubRepositories(token, response) ==
    IF trim(token) = << >> THEN [success |-> FALSE, repositories |-> << >>]
    ELSE IF authResponse(response, token) = "ok"
    THEN [success |-> TRUE, repositories |-> Accounts[token].repos]
    ELSE [success |-> FALSE, repositories |-> << >>]

\* the "Log in" / "Re login" button is clicked: the request carries the
\* token stored at that moment
LoginClick ==
    /\ pending.login = NoRequest
    /\ pending' = [pending EXCEPT !.login = githubToken]
    /\ UNCHANGED << local, gitAvailable, statusMatrix, refs, commits, selectedRepository,
                    deviceName, githubToken, username, repositories, viewVars >>

\* checkGitHubAuth returns: its username is stored, empty when it failed
LoginDone ==
    /\ pending.login # NoRequest
    /\ \E response \in Responses : username' = checkGitHubAuth(pending.login, response)
    /\ pending' = [pending EXCEPT !.login = NoRequest]
    /\ UNCHANGED << local, gitAvailable, statusMatrix, refs, commits, selectedRepository,
                    deviceName, githubToken, repositories, viewVars >>

\* the "Fetch repositories" button, shown to a logged-in user, is clicked
FetchRepositoriesClick ==
    /\ username # ""
    /\ pending.repos = NoRequest
    /\ pending' = [pending EXCEPT !.repos = githubToken]
    /\ UNCHANGED << local, gitAvailable, statusMatrix, refs, commits, selectedRepository,
                    deviceName, githubToken, username, repositories, viewVars >>

\* a mutant of FetchRepositoriesDone: a successful fetch keeps the selection
FetchRepositoriesDoneKeepsSelection ==
    /\ pending.repos # NoRequest
    /\ \E response \in Responses :
       \E result \in { fetchGitHubRepositories(pending.repos, response) } :
          IF result.success
          THEN /\ repositories' = result.repositories
               /\ selectedRepository' = selectedRepository
               /\ notice' = "repositories-found"
          ELSE /\ UNCHANGED << repositories, selectedRepository >>
               /\ notice' = "repositories-error"
    /\ pending' = [pending EXCEPT !.repos = NoRequest]
    /\ UNCHANGED << local, gitAvailable, statusMatrix, refs, commits, deviceName,
                    githubToken, username, currentDiffs, syncDisabled, pullDisabled,
                    pushDisabled, pc, run, lastRecon, clock >>

\* fetchGitHubRepositories returns: on success the list is stored, the
\* selected repository cleared and the number found shown; on failure the
\* error is shown
FetchRepositoriesDone ==
    /\ pending.repos # NoRequest
    /\ \E response \in Responses :
       \E result \in { fetchGitHubRepositories(pending.repos, response) } :
          IF result.success
          THEN /\ repositories' = result.repositories
               /\ selectedRepository' = ""
               /\ notice' = "repositories-found"
          ELSE /\ UNCHANGED << repositories, selectedRepository >>
               /\ notice' = "repositories-error"
    /\ pending' = [pending EXCEPT !.repos = NoRequest]
    /\ UNCHANGED << local, gitAvailable, statusMatrix, refs, commits, deviceName,
                    githubToken, username, currentDiffs, syncDisabled, pullDisabled,
                    pushDisabled, pc, run, lastRecon, clock >>

\* the settings tab of a fresh installation (DEFAULT_SETTINGS), the view
\* not used
InitSettings ==
    /\ githubToken = NoToken
    /\ username = ""
    /\ repositories = << >>
    /\ selectedRepository = ""
    /\ deviceName = << >>
    /\ pending = [login |-> NoRequest, repos |-> NoRequest]
    /\ local = << >>
    /\ gitAvailable = FALSE
    /\ statusMatrix = << >>
    /\ RemoteInit(<< >>)
    /\ currentDiffs = << >>
    /\ syncDisabled = FALSE
    /\ pullDisabled = TRUE
    /\ pushDisabled = TRUE
    /\ pc = "idle"
    /\ run = NoRun
    /\ lastRecon = NoRecon
    /\ notice = ""
    /\ clock = 0

NextSettings ==
    \/ TokenChanged \/ LoginClick \/ LoginDone
    \/ FetchRepositoriesClick \/ FetchRepositoriesDone \/ RepositorySelected

SpecSettings == InitSettings /\ [][NextSettings]_vars

(* ------------------------------------------------------------------ *)
(* The Sync Controller                                                 *)
(* ------------------------------------------------------------------ *)

\* a vault of at most one markdown document and a remote of at most two,
\* whose names differ in case only; a document is in sync with the remote,
\* changed on one side or missing on one side.  The remote has the branch
\* main; for a vault that holds the document and a remote of at most that
\* document it may also have master alone, or main with master one commit
\* behind.
Init ==
    /\ ViewInit
    /\ SettingsInit
    /\ deviceName = << >>
    /\ \E l \in [Paths -> {TextLF, TextAccent, Absent}],
          r \in [Paths -> {TextLF, TextCRLF, Absent}],
          m \in [Paths -> {<<1, 1, 1>>, <<1, 2, 1>>, <<0, 2, 0>>, <<1, 0, 1>>, NoRow}] :
          /\ \A p \in Paths \ MdPaths : l[p] = Absent /\ r[p] = Absent /\ m[p] = NoRow
          /\ l[PathNoteLower] = Absent
          /\ m[PathNoteLower] = <<1, 0, 1>> => m[PathNoteUpper] = <<1, 2, 1>>
          /\ \A p \in Paths :
                m[p] \in (IF l[p] = Absent THEN {<<1, 0, 1>>, NoRow}
                          ELSE IF r[p] = Absent THEN {<<0, 2, 0>>}
                          ELSE {<<1, 1, 1>>, <<1, 2, 1>>})
          /\ local = Restrict(l, { p \in Paths : l[p] # Absent })
          /\ \/ RemoteInitOn(Restrict(r, { p \in Paths : r[p] # Absent }), "main")
             \/ /\ l[PathNoteUpper] # Absent /\ r[PathNoteLower] = Absent
                /\ \/ RemoteInitOn(Restrict(r, { p \in Paths : r[p] # Absent }), "master")
                   \/ RemoteInitBoth(Restrict(r, { p \in Paths : r[p] # Absent }))
          /\ \/ /\ gitAvailable = TRUE
                /\ statusMatrix = Restrict(m, { p \in Paths : m[p] # NoRow })
             \/ /\ gitAvailable = FALSE
                /\ \A p \in Paths : m[p] = (IF l[p] = Absent THEN NoRow
                                            ELSE IF r[p] = Absent THEN <<0, 2, 0>>
                                            ELSE <<1, 1, 1>>)
                /\ statusMatrix = << >>

Next ==
    \/ SyncClick \/ SyncDone \/ SyncFailed
    \/ PullClick \/ PullStep \/ PullFinish
    \/ PushClick \/ PushResolveTip \/ PushFetchTree \/ PushDiff
    \/ PushCreateTree \/ PushCreateCommit \/ PushUpdateRef \/ PushFinish
    \/ RepositorySelected

Spec == Init /\ [][Next]_vars

(* ------------------------------------------------------------------ *)
(* Claims about reconciliation (checked under SpecRecon)               *)
(* ------------------------------------------------------------------ *)

\* the oracle records of the last pass flag path p
flagged(p) == \E i \in 1..Len(lastRecon.gitChanges) : lastRecon.gitChanges[i].file = p

\* the vault the last pass read holds a file matching p, exactly or
\* case-insensitively
hasLocalMatch(p) ==
    \E q \in DOMAIN lastRecon.vault : toLowerCase(q) = toLowerCase(p)

diffsOf(p) == { i \in 1..Len(lastRecon.diffs) : lastRecon.diffs[i].filename = p }

\* C2: for every oracle output that does not flag p (the empty output
\* included), a snapshot path p without any local match, exact or
\* case-insensitive, gets a diff with status remote-only and matchType none.
C2_RemoteOnlyEmitted ==
    lastRecon.ran =>
        \A p \in DOMAIN lastRecon.remoteTree :
            (~flagged(p) /\ ~hasLocalMatch(p)) =>
                \E i \in diffsOf(p) :
                    /\ lastRecon.diffs[i].status = "remote-only"
                    /\ lastRecon.diffs[i].matchType = "none"

\* the vault and the snapshot of the last pass hold the same markdown paths
\* with identical text
inSync ==
    /\ { p \in DOMAIN lastRecon.vault : endsWith(p, MdExt) } = DOMAIN lastRecon.remoteTree
    /\ \A p \in DOMAIN lastRecon.remoteTree :
          lastRecon.vault[p] = lastRecon.remoteTree[p].content

\* C6: when vault and snapshot hold the same tracked paths with identical
\* content, the pass yields the empty list whatever the oracle reports (so
\* a second pass over the unchanged state yields the empty list again).
C6_InSyncYieldsNoDiff ==
    (lastRecon.ran /\ inSync) => lastRecon.diffs = << >>

\* C7: local Note.md against remote note.md with identical content and no
\* other file yields exactly one diff, case-conflict-only, with the observed
\* local path Note.md, for every oracle output.
C7_CasePrecedence ==
    ( /\ lastRecon.ran
      /\ DOMAIN lastRecon.vault = { PathNoteUpper }
      /\ DOMAIN lastRecon.remoteTree = { PathNoteLower }
      /\ DOMAIN lastRecon.headTree = { PathNoteLower }
      /\ lastRecon.vault[PathNoteUpper] = lastRecon.remoteTree[PathNoteLower].content )
    => /\ Len(lastRecon.diffs) = 1
       /\ lastRecon.diffs[1].status = "case-conflict-only"
       /\ lastRecon.diffs[1].localPath = PathNoteUpper

\* C8: one pass never yields two diffs whose paths are equal under
\* case-insensitive comparison.
C8_OneDiffPerNormalizedPath ==
    \A i, j \in 1..Len(lastRecon.diffs) :
        i # j => toLowerCase(lastRecon.diffs[i].filename)
                    # toLowerCase(lastRecon.diffs[j].filename)

\* C9: no diff is emitted for a path that exists locally and in the
\* snapshot with content identical after line-ending normalisation,
\* whichever status the oracle reports for it.
C9_NoDiffForIdenticalContent ==
    \A i \in 1..Len(lastRecon.diffs) :
        LET p == lastRecon.diffs[i].filename
        IN  ~ ( /\ p \in DOMAIN lastRecon.vault
                /\ p \in DOMAIN lastRecon.remoteTree
                /\ normalizeLineEndings(lastRecon.vault[p])
                     = normalizeLineEndings(lastRecon.remoteTree[p].content) )

\* the local file a diff of the last pass was computed from
comparedLocalPath(d) == IF d.status = "remote-modified" THEN d.localPath ELSE d.filename

\* the length of the line terminator a text starts with: 2 for CR LF, 1 for
\* CR or LF alone, 0 when it starts with no terminator
terminatorLen(s) ==
    IF s = << >> THEN 0
    ELSE IF Head(s) = CR /\ Len(s) >= 2 /\ s[2] = LF THEN 2
    ELSE IF Head(s) \in {CR, LF} THEN 1
    ELSE 0

\* two texts are the same lines: equal character by character once every
\* line terminator, CR LF, CR or LF, counts as the same end of line
RECURSIVE sameLines(_, _)
sameLines(a, b) ==
    IF a = << >> \/ b = << >> THEN a = b
    ELSE IF terminatorLen(a) > 0 /\ terminatorLen(b) > 0
    THEN sameLines(SubSeq(a, terminatorLen(a) + 1, Len(a)),
                   SubSeq(b, terminatorLen(b) + 1, Len(b)))
    ELSE IF terminatorLen(a) = 0 /\ terminatorLen(b) = 0 /\ Head(a) = Head(b)
    THEN sameLines(Tail(a), Tail(b))
    ELSE FALSE

\* C10: a modified or remote-modified diff is emitted only when the local
\* and the remote text differ after line-ending normalisation; a hash
\* mismatch with equal normalised text never yields one.
C10_ModifiedOnlyWhenContentDiffers ==
    \A i \in 1..Len(lastRecon.diffs) :
        LET d == lastRecon.diffs[i]
        IN  d.status \in {"modified", "remote-modified"} =>
                ~sameLines(lastRecon.vault[comparedLocalPath(d)],
                           lastRecon.remoteTree[d.filename].content)

\* a pass met a hash mismatch with equal normalised text on a flagged path
\* and on an unflagged path, and emitted neither modified nor remote-modified
C10_Witness ==
    /\ lastRecon.ran
    /\ lastRecon.gitChanges # << >>
    /\ \E p, q \in DOMAIN lastRecon.remoteTree \cap DOMAIN lastRecon.vault :
          /\ flagged(p) /\ ~flagged(q)
          /\ lastRecon.gitChanges[CHOOSE i \in 1..Len(lastRecon.gitChanges) :
                                     lastRecon.gitChanges[i].file = p].status = "M"
          /\ \A x \in {p, q} :
                /\ calculateContentHash(lastRecon.vault[x]) # lastRecon.remoteTree[x].sha
                /\ lastRecon.vault[x] # lastRecon.remoteTree[x].content
                /\ sameLines(lastRecon.vault[x], lastRecon.remoteTree[x].content)
    /\ ~hasStatus(lastRecon.diffs, {"modified", "remote-modified"})

\* the remote sweep of the last pass ran: the oracle had reported a change
sweepRan == lastRecon.ran /\ lastRecon.gitChanges # << >>

\* the local files of the last pass whose path equals p but for case
caseVariants(p) ==
    { q \in DOMAIN lastRecon.vault : q # p /\ toLowerCase(q) = toLowerCase(p) }

linesOf(text) == splitLines(normalizeLineEndings(text))

\* C24: for every modified or remote-modified diff, additions is the number
\* of line indexes beyond the remote text's length plus the number of shared
\* indexes whose lines differ, and deletions the number of line indexes
\* beyond the local text's length, on line-ending-normalised text.
C24_LineStatistics ==
    \A i \in 1..Len(lastRecon.diffs) :
        LET d == lastRecon.diffs[i]
        IN  d.status \in {"modified", "remote-modified"} =>
                LET localLines  == linesOf(lastRecon.vault[comparedLocalPath(d)])
                    remoteLines == linesOf(lastRecon.remoteTree[d.filename].content)
                    maxLines    == Max(Len(localLines), Len(remoteLines))
                    beyondRemote == { k \in 1..maxLines : k > Len(remoteLines) }
                    beyondLocal  == { k \in 1..maxLines : k > Len(localLines) }
                    differing    == { k \in 1..maxLines :
                                        /\ k <= Len(localLines) /\ k <= Len(remoteLines)
                                        /\ localLines[k] # remoteLines[k] }
                IN  /\ d.additions = Cardinality(beyondRemote) + Cardinality(differing)
                    /\ d.deletions = Cardinality(beyondLocal)

\* the same statement for the diffs of status modified alone
C24_LineStatisticsOfModified ==
    \A i \in 1..Len(lastRecon.diffs) :
        LET d == lastRecon.diffs[i]
        IN  d.status = "modified" =>
                LET localLines  == linesOf(lastRecon.vault[d.filename])
                    remoteLines == linesOf(lastRecon.remoteTree[d.filename].content)
                    maxLines    == Max(Len(localLines), Len(remoteLines))
                IN  /\ d.additions = Cardinality({ k \in 1..maxLines :
                                        \/ k > Len(remoteLines)
                                        \/ (k <= Len(localLines) /\ localLines[k] # remoteLines[k]) })
                    /\ d.deletions = Cardinality({ k \in 1..maxLines : k > Len(localLines) })

(* ------------------------------------------------------------------ *)
(* Claims about the Pull and Push executors (checked under Spec)       *)
(* ------------------------------------------------------------------ *)

\* the diffs a run has gone through so far
appliedDiffs == { i \in 1..Len(run.diffs) : i < run.next }

\* the outcome of the step the run made last
lastStep == run.steps[Len(run.steps)]

\* C1: pulling a remote-only diff whose path has neither an exact nor a
\* case-insensitive match in the local store creates a local file at that
\* path holding the diff's remote content.
C1_PullCreatesRemoteOnlyFile ==
    [][ \A i \in 1..Len(run.diffs) :
          ( /\ pc = "pull" /\ run.next = i /\ run'.next = i + 1
            /\ run.diffs[i].status = "remote-only"
            /\ run.diffs[i].filename \notin DOMAIN local
            /\ findCaseInsensitiveFile(local, run.diffs[i].filename) = <<>> )
          => ( /\ run.diffs[i].filename \in DOMAIN local'
               /\ local'[run.diffs[i].filename] = run.diffs[i].remoteContent ) ]_vars

\* the steps of a push that precede the update of the branch reference
StepsBeforeRef == {"tip", "tree", "blob", "new-tree", "commit"}

\* C3: in a push run the update of the branch reference is requested only
\* after tip resolution, the push-time tree fetch, every blob creation, the
\* tree creation and the commit creation have succeeded; when one of them
\* failed the branch reference holds its pre-push commit at the end of the run.
C3_RefUpdateAfterAllStepsSucceeded ==
    run.kind = "push" =>
        /\ \A i \in 1..Len(run.steps) :
              run.steps[i].step = "ref" =>
                  \A j \in 1..(i - 1) :
                      run.steps[j].step \in StepsBeforeRef => run.steps[j].ok
        /\ ( /\ pc = "idle"
             /\ \E j \in 1..Len(run.steps) :
                   run.steps[j].step \in StepsBeforeRef /\ ~run.steps[j].ok )
           => refs = run.before

\* C4: during a push a remote-only diff's path is queued as a deletion, and
\* is gone from the new tree, if and only if the tree fetched during that
\* push holds the path; otherwise the diff is skipped, no deletion is
\* queued for it and the push goes on without raising.
C4_DeletionIffInFetchedTree ==
    run.kind = "push" =>
        /\ \A i \in appliedDiffs :
              run.diffs[i].status = "remote-only" =>
                  ( (\E k \in 1..Len(run.deletions) : run.deletions[k] = run.diffs[i].filename)
                    <=> run.diffs[i].filename \in run.remoteFilesSet )
        /\ pc \in {"push-commit", "push-ref", "push-local"} =>
              \A k \in 1..Len(run.deletions) : run.deletions[k] \notin DOMAIN run.newTree
        /\ (run.steps # << >> /\ lastStep.step = "skip") =>
              lastStep.ok /\ pc = "push-diffs"

\* a push skipped a remote-only diff whose path the fetched tree does not
\* hold, went on and built the new tree without a deletion
C4_Witness ==
    /\ run.kind = "push" /\ pc = "push-commit"
    /\ run.deletions = << >>
    /\ \E i \in appliedDiffs :
          /\ run.diffs[i].status = "remote-only"
          /\ run.diffs[i].filename \notin run.remoteFilesSet
    /\ \E j \in 1..Len(run.steps) : run.steps[j].step = "skip"

\* C5: after a successful push of a modified diff for a path, a
\* reconciliation against the same local state yields no diff for that path.
C5_RoundTripPushModified ==
    (pc = "idle" /\ run.kind = "push" /\ notice = "push-ok") =>
        \A i \in 1..Len(run.diffs) :
            run.diffs[i].status = "modified" =>
                \A j \in 1..Len(currentDiffs) :
                    currentDiffs[j].filename # run.diffs[i].filename

\* the diffs of a push for which a blob is created, and those whose path is
\* a confirmed deletion
blobDiffs == { i \in 1..Len(run.diffs) : run.diffs[i].status \notin {"remote-only", "remote-added"} }
confirmedDeletions ==
    { i \in 1..Len(run.diffs) :
        /\ run.diffs[i].status \in {"remote-only", "remote-added"}
        /\ run.diffs[i].filename \in run.remoteFilesSet }

\* the tip, when the push started, of the branch step 1 resolved
tipAtStart == run.before[run.resolvedBranch]

\* the positions of the log of a run that hold the step named
stepsNamed(name) == { i \in 1..Len(run.steps) : run.steps[i].step = name }

\* C22: the commit a push creates has one parent, the branch tip resolved at
\* step 1, and its tree is the tip's tree changed by exactly one entry per
\* blob created in the push and one null-sha entry per confirmed deletion;
\* the tree is created after every blob, the commit after the tree.
C22_CommitOnTipWithOneEntryPerChange ==
    run.kind = "push" =>
        /\ \A j \in stepsNamed("new-tree") :
              /\ \A i \in stepsNamed("blob") : i < j /\ run.steps[i].ok
              /\ Cardinality(stepsNamed("blob")) = Cardinality(blobDiffs)
        /\ \A k \in stepsNamed("commit") :
              \E j \in stepsNamed("new-tree") : j < k /\ run.steps[j].ok
        /\ run.commit # 0 =>
              LET made  == commits[run.commit]
                  base  == commits[tipAtStart].tree
                  items == run.treeItems
                  entriesOf(q) == { k \in 1..Len(items) : items[k].path = q }
                  set     == { run.diffs[i].filename : i \in blobDiffs }
                  removed == { run.diffs[i].filename : i \in confirmedDeletions }
              IN  /\ made.parent = tipAtStart /\ run.tip = tipAtStart
                  /\ Len(items) = Cardinality(blobDiffs) + Cardinality(confirmedDeletions)
                  /\ \A i \in blobDiffs :
                        /\ Cardinality(entriesOf(run.diffs[i].filename)) = 1
                        /\ \A k \in entriesOf(run.diffs[i].filename) :
                              items[k].sha = gitBlobSha(utf8Encode(run.diffs[i].localContent))
                  /\ \A i \in confirmedDeletions :
                        /\ Cardinality(entriesOf(run.diffs[i].filename)) = 1
                        /\ \A k \in entriesOf(run.diffs[i].filename) : items[k].sha = NoSha
                  /\ DOMAIN made.tree = (DOMAIN base \cup set) \ removed
                  /\ \A q \in DOMAIN made.tree :
                        IF q \in set
                        THEN \E i \in blobDiffs :
                                /\ run.diffs[i].filename = q
                                /\ made.tree[q] = utf8Encode(run.diffs[i].localContent)
                        ELSE made.tree[q] = base[q]

\* a push created one blob and confirmed one deletion, built the tree and the
\* commit on the tip and advanced the branch
C22_Witness ==
    /\ run.kind = "push" /\ pc = "push-local"
    /\ Cardinality(blobDiffs) = 1 /\ Cardinality(confirmedDeletions) = 1
    /\ Len(run.treeItems) = 2
    /\ commits[run.commit].parent = tipAtStart
    /\ refs[run.tipBranch] = run.commit

\* C29: pulling a remote-only diff whose path collides case-insensitively
\* with an existing local file never overwrites that file: it creates a
\* conflict-suffixed file with the remote content and a conflict-suffixed
\* backup of the local file, whose content stays as it was.
C29_RemoteOnlyCollisionMakesConflictFiles ==
    [][ \A i \in 1..Len(run.diffs) :
          ( /\ pc = "pull" /\ run.next = i /\ run'.next = i + 1
            /\ run.diffs[i].status = "remote-only"
            /\ findCaseInsensitiveFile(local, run.diffs[i].filename) # << >> )
          => LET existing == findCaseInsensitiveFile(local, run.diffs[i].filename)
             IN  /\ \A q \in DOMAIN local : q \in DOMAIN local' /\ local'[q] = local[q]
                 /\ \E a, b \in DOMAIN local' \ DOMAIN local :
                       /\ a # b
                       /\ local'[a] = run.diffs[i].remoteContent
                       /\ local'[b] = local[existing] ]_vars

\* C30: the branch a successful push advances is the branch whose tip step 1
\* resolved, and the parent of the new commit is the previous tip of the
\* advanced branch, whatever the remote answers for main and for master.
C30_AdvancedBranchIsResolvedBranch ==
    (run.kind = "push" /\ run.tipBranch # "") =>
        /\ run.tipBranch = run.resolvedBranch
        /\ commits[run.commit].parent = run.before[run.tipBranch]

(* ------------------------------------------------------------------ *)
(* Claims about the Sync Controller (checked under Spec)               *)
(* ------------------------------------------------------------------ *)

\* C11: from the start of a Sync, Pull or Push run until its end all three
\* buttons are disabled, so no second run can be started while one is in
\* flight.
C11_ButtonsDisabledInFlight ==
    pc # "idle" => (syncDisabled /\ pullDisabled /\ pushDisabled)

\* a push is in flight after a Sync that had enabled Pull and Push, and all
\* three buttons are disabled
C11_Witness ==
    /\ pc = "push-diffs"
    /\ hasStatus(currentDiffs, {"modified"})
    /\ syncDisabled /\ pullDisabled /\ pushDisabled

\* C12: once a run has ended, by success, early return or failure, the Sync
\* button is enabled, and after a failure the button that started the run is
\* enabled again; no idle state has all three buttons disabled.
C12_ButtonsAfterRun ==
    pc = "idle" =>
        /\ ~syncDisabled
        /\ notice = "pull-failed" => ~pullDisabled
        /\ notice = "push-failed" => ~pushDisabled
        /\ ~(syncDisabled /\ pullDisabled /\ pushDisabled)

\* a pull failed and left Pull and Sync enabled
C12_Witness ==
    /\ pc = "idle" /\ run.kind = "pull" /\ notice = "pull-failed"
    /\ ~pullDisabled /\ ~syncDisabled

\* the last reconciliation that returned a list had asked for the remote tree
treeWasFetched == lastRecon.ran /\ lastRecon.gitChanges # << >>

\* C13: when the remote service answers the tree fetch of a reconciliation
\* with an authentication failure, the run fails with the authentication
\* error: no diff list comes out of such a run.
C13_AuthFailureFailsRun ==
    treeWasFetched => lastRecon.response # "unauthorized"

\* C14: a Sync run during which the remote cannot be reached ends with the
\* error message, the Sync button enabled and Pull and Push disabled.
C14_NetworkFailureEndsInError ==
    ( /\ pc = "idle" /\ notice \in {"sync-ok", "sync-error"}
      /\ treeWasFetched /\ lastRecon.response = "network" )
    => (notice = "sync-error" /\ ~syncDisabled /\ pullDisabled /\ pushDisabled)

\* C15: in a pull of d1..dn, when applying dk fails the pull raises: no
\* diff after dk is applied, what was written for d1..d(k-1) stays in the
\* vault, and no local commit is made for the run.
C15_PullAbortsAtFirstFailure ==
    /\ [] ( run.kind = "pull" =>
              \A i \in 1..Len(run.steps) :
                  (run.steps[i].step = "apply" /\ ~run.steps[i].ok) =>
                      /\ i = Len(run.steps)
                      /\ Len(run.processed) = i - 1
                      /\ pc = "idle" /\ notice = "pull-failed" )
    /\ [][ ( /\ pc = "pull" /\ Len(run'.steps) = Len(run.steps) + 1
             /\ ~run'.steps[Len(run'.steps)].ok )
           => \A q \in DOMAIN local : q \in DOMAIN local' /\ local'[q] = local[q] ]_vars

\* a pull applied its first diff, failed on the second and ended; what the
\* first diff wrote is in the vault
C15_Witness ==
    /\ run.kind = "pull" /\ pc = "idle" /\ notice = "pull-failed"
    /\ Len(run.steps) = 2 /\ run.steps[1].ok /\ ~run.steps[2].ok
    /\ local # lastRecon.vault

\* C16: a failure of the local commit at the end of a pull or push does not
\* fail the run: the run completes, the success notice is shown, and the
\* vault writes or the advanced remote branch stay in place.
C16_LocalCommitFailureNotFatal ==
    /\ [] ( run.kind \in {"pull", "push"} =>
              \A i \in 1..Len(run.steps) :
                  (run.steps[i].step = "local-commit" /\ ~run.steps[i].ok) =>
                      /\ i < Len(run.steps)
                      /\ run.steps[i + 1] = [step |-> "success", ok |-> TRUE]
                      /\ pc = "idle"
                      /\ i + 1 = Len(run.steps) =>
                            notice = (IF run.kind = "pull" THEN "pull-ok" ELSE "push-ok")
                      /\ run.kind = "push" => refs[run.tipBranch] = run.commit )
    /\ [][ ( /\ pc \in {"pull", "push-local"} /\ pc' = "idle"
             /\ \E i \in 1..Len(run'.steps) : run'.steps[i].step = "local-commit" )
           => (local' = local /\ refs' = refs) ]_vars

\* a push advanced the branch, its local commit failed, and it ended with
\* the success notice
C16_Witness ==
    /\ run.kind = "push" /\ pc = "idle" /\ notice = "push-ok"
    /\ refs[run.tipBranch] = run.commit /\ refs # run.before
    /\ \E i \in 1..Len(run.steps) : run.steps[i] = [step |-> "local-commit", ok |-> FALSE]

\* C19: after a successful Sync the Pull button is enabled exactly when the
\* new list holds a diff of status remote-modified, case-conflict-only,
\* modified or remote-only, and the Push button exactly when it holds one of
\* status added, modified or remote-only.
C19_ButtonsAfterSync ==
    (pc = "idle" /\ notice = "sync-ok") =>
        /\ ~pullDisabled <=>
              \E j \in 1..Len(currentDiffs) :
                  currentDiffs[j].status \in {"remote-modified", "case-conflict-only",
                                              "modified", "remote-only"}
        /\ ~pushDisabled <=>
              \E j \in 1..Len(currentDiffs) :
                  currentDiffs[j].status \in {"added", "modified", "remote-only"}

\* a Sync listed nothing but remote-only diffs and enabled Pull and Push
C19_Witness ==
    /\ pc = "idle" /\ notice = "sync-ok"
    /\ currentDiffs # << >>
    /\ \A j \in 1..Len(currentDiffs) : currentDiffs[j].status = "remote-only"
    /\ ~pullDisabled /\ ~pushDisabled

\* C20: the update of the branch reference tries main first and master only
\* after it, returns as soon as one update has succeeded, and raises only
\* when the update of both names has failed.
C20_RefUpdateTriesBothNames ==
    (run.kind = "push" /\ run.refAttempts # << >>) =>
        LET attempts == run.refAttempts
            raised   == \E i \in 1..Len(run.steps) :
                            run.steps[i].step = "ref" /\ ~run.steps[i].ok
        IN  /\ attempts[1].branch = "main"
            /\ Len(attempts) <= 2
            /\ Len(attempts) = 1 => attempts[1].response = "ok"
            /\ Len(attempts) = 2 =>
                  (attempts[1].response # "ok" /\ attempts[2].branch = "master")
            /\ raised <=> (Len(attempts) = 2 /\ attempts[2].response # "ok")
            /\ ~raised => refs[attempts[Len(attempts)].branch] = run.commit

\* the update of main was not found, that of master succeeded, and the push
\* went on with master advanced to the new commit
C20_Witness ==
    /\ run.kind = "push" /\ Len(run.refAttempts) = 2
    /\ run.refAttempts[1].response = "notfound"
    /\ run.refAttempts[2].response = "ok"
    /\ refs["master"] = run.commit /\ run.tipBranch = "master"

(* ------------------------------------------------------------------ *)
(* Claims about the settings tab (checked under SpecSettings)          *)
(* ------------------------------------------------------------------ *)

flaggedDocuments ==
    { i \in 1..Len(lastRecon.gitChanges) :
        /\ lastRecon.gitChanges[i].status \in {"A", "M"}
        /\ lastRecon.gitChanges[i].file \in DOMAIN lastRecon.vault
        /\ endsWith(lastRecon.gitChanges[i].file, MdExt) }

\* C17: when the branch or repository is not found, the tree fetch yields
\* the empty snapshot without raising, and the pass classifies every
\* flagged existing document as added and emits no remote-only and no
\* remote-modified diff.
C17_NotFoundIsEmptyRemote ==
    (lastRecon.ran /\ lastRecon.response = "notfound") =>
        /\ DOMAIN lastRecon.remoteTree = {}
        /\ notice = "sync-ok"
        /\ \A i \in flaggedDocuments :
              \E j \in 1..Len(lastRecon.diffs) :
                  /\ lastRecon.diffs[j].filename = lastRecon.gitChanges[i].file
                  /\ lastRecon.diffs[j].status = "added"
        /\ \A j \in 1..Len(lastRecon.diffs) : lastRecon.diffs[j].status = "added"

\* a pass against a remote that holds documents was answered not-found and
\* listed a flagged document as added
C17_Witness ==
    /\ lastRecon.ran /\ lastRecon.response = "notfound"
    /\ DOMAIN lastRecon.headTree # {}
    /\ flaggedDocuments # {}
    /\ hasStatus(lastRecon.diffs, {"added"})

\* the number of lines of a text: one more than its line feeds
lineCount(text) == 1 + Cardinality({ k \in 1..Len(text) : text[k] = LF })

\* C25: when the oracle flags an existing local document as added or
\* modified and the snapshot has no entry at that exact path, the pass emits
\* one diff for it, of status added, with additions the number of lines of
\* the local content, deletions 0 and empty remote content.
C25_FlaggedAndNotRemoteIsAdded ==
    lastRecon.ran =>
        \A i \in flaggedDocuments :
            LET p == lastRecon.gitChanges[i].file
            IN  p \notin DOMAIN lastRecon.remoteTree =>
                    /\ Cardinality(diffsOf(p)) = 1
                    /\ \A j \in diffsOf(p) :
                          /\ lastRecon.diffs[j].status = "added"
                          /\ lastRecon.diffs[j].additions = lineCount(lastRecon.vault[p])
                          /\ lastRecon.diffs[j].deletions = 0
                          /\ lastRecon.diffs[j].remoteContent = << >>
                          /\ lastRecon.diffs[j].localContent = lastRecon.vault[p]

\* a new, untracked document of two lines, reported by the oracle, while the
\* remote tree was fetched and holds another document: one diff, added,
\* additions 2, deletions 0
C25_Witness ==
    /\ lastRecon.ran /\ lastRecon.response = "ok"
    /\ DOMAIN lastRecon.remoteTree # {}
    /\ \E i \in flaggedDocuments :
          LET p == lastRecon.gitChanges[i].file
          IN  /\ p \in DOMAIN statusMatrix /\ statusMatrix[p] = <<0, 2, 0>>
              /\ p \notin DOMAIN lastRecon.remoteTree
              /\ lastRecon.vault[p] = TextLF
              /\ \E j \in diffsOf(p) :
                    /\ lastRecon.diffs[j].status = "added"
                    /\ lastRecon.diffs[j].additions = 2
                    /\ lastRecon.diffs[j].deletions = 0

\* C26: when the content fetch of a tracked remote file fails while the
\* snapshot is built, the snapshot holds that path with its hash and empty
\* content, the other files keep their fetched content, and the pass
\* completes without raising.
C26_FailedContentFetchKeepsPath ==
    (sweepRan /\ lastRecon.response = "ok") =>
        /\ \A p \in DOMAIN lastRecon.headTree :
              endsWith(p, MdExt) =>
                  /\ p \in DOMAIN lastRecon.remoteTree
                  /\ lastRecon.remoteTree[p].sha = gitBlobSha(lastRecon.headTree[p])
                  /\ lastRecon.remoteTree[p].content =
                        (IF p \in lastRecon.blobFailed THEN << >>
                         ELSE utf8Decode(lastRecon.headTree[p]))
        /\ notice = "sync-ok"

\* a snapshot of two documents was built, the content fetch of one of them
\* failed, and the pass returned its list
C26_Witness ==
    /\ sweepRan /\ lastRecon.response = "ok" /\ notice = "sync-ok"
    /\ Cardinality(DOMAIN lastRecon.remoteTree) = 2
    /\ \E p, q \in DOMAIN lastRecon.remoteTree :
          /\ p \in lastRecon.blobFailed /\ q \notin lastRecon.blobFailed
          /\ lastRecon.remoteTree[p].content = << >>
          /\ lastRecon.remoteTree[p].sha = gitBlobSha(lastRecon.headTree[p])
          /\ lastRecon.remoteTree[q].content = TextCRLF
    /\ lastRecon.diffs # << >>

(* ------------------------------------------------------------------ *)
(* The Pull executor on its own (SpecPull): pullRemoteChange applied   *)
(* to any vault, also one that changed since the diff was computed     *)
(* ------------------------------------------------------------------ *)

\* the other spelling of a note's path
otherCase(p) == IF p = PathNoteUpper THEN PathNoteLower ELSE PathNoteUpper

\* the diffs fetchDiffs hands to performPull, for every path and remote text
PulledDiffs ==
    UNION { { Diff(p, "modified", 0, 0, << >>, text, NoSha, NoSha, "", << >>),
              Diff(p, "remote-only", 0, 0, << >>, text, NoSha, NoSha, "", << >>),
              Diff(p, "remote-modified", 0, 0, << >>, text, NoSha, NoSha, "exact", p),
              Diff(p, "remote-modified", 0, 0, << >>, text, NoSha, NoSha,
                   "case-conflict", otherCase(p)),
              Diff(p, "case-conflict-only", 0, 0, << >>, text, NoSha, NoSha,
                   "case-conflict", otherCase(p)) } :
            p \in MdPaths, text \in Texts \cup {<< >>} }

\* any vault over the universe, no local repository, nothing pulled yet
InitPull ==
    /\ ViewInit
    /\ SettingsInit
    /\ deviceName = << >>
    /\ gitAvailable = FALSE
    /\ statusMatrix = << >>
    /\ RemoteInit(<< >>)
    /\ \E l \in [Paths -> Texts \cup {Absent}] :
          local = Restrict(l, { p \in Paths : l[p] # Absent })

\* performPull hands one diff to pullRemoteChange; the run keeps the vault as
\* it was before
DiffPulled ==
    /\ run = NoRun
    /\ \E diff \in PulledDiffs :
       \E res \in { pullRemoteChange(local, diff, timestamp) } :
          /\ local' = res.vault
          /\ run' = [NoRun EXCEPT !.kind = "pull", !.diffs = << diff >>,
                                  !.next = IF res.threw THEN 1 ELSE 2,
                                  !.before = local,
                                  !.steps = << [step |-> "apply", ok |-> ~res.threw] >>]
    /\ UNCHANGED << gitAvailable, statusMatrix, refs, commits, selectedRepository, deviceName,
                    githubToken, username, repositories, pending,
                    currentDiffs, syncDisabled, pullDisabled, pushDisabled, pc,
                    lastRecon, notice, clock >>

NextPull == DiffPulled

SpecPull == InitPull /\ [][NextPull]_vars

\* the diff that was pulled
pulled == run.diffs[1]

\* C27: after pulling a diff of status modified for path p, the local file
\* at p holds exactly the diff's remote content, overwritten when it existed
\* and created when it did not, and no other local file is changed.
C27_ModifiedPullWritesRemoteContent ==
    (run.kind = "pull" /\ pulled.status = "modified") =>
        /\ run.steps[1].ok
        /\ DOMAIN local = DOMAIN run.before \cup { pulled.filename }
        /\ local[pulled.filename] = pulled.remoteContent
        /\ \A q \in DOMAIN run.before : q # pulled.filename => local[q] = run.before[q]

\* a modified diff was pulled over an existing file with another text, while
\* a file whose path differs in case only kept its text
C27_Witness ==
    /\ run.kind = "pull" /\ pulled.status = "modified"
    /\ pulled.filename \in DOMAIN run.before
    /\ run.before[pulled.filename] # pulled.remoteContent
    /\ local[pulled.filename] = pulled.remoteContent
    /\ otherCase(pulled.filename) \in DOMAIN local
    /\ local[otherCase(pulled.filename)] = run.before[otherCase(pulled.filename)]

Laptop == <<"l", "a", "p", "t", "o", "p">>

\* device labels: none, blank ones, and ones with text
DeviceNames == { << >>, <<" ">>, <<" ", " ">>, <<"\t">>, Laptop, <<" ", "L">>, <<"L", " ">> }

\* a view with a device label as the settings tab stores it, and a remote
\* with one commit
InitMessage ==
    /\ ViewInit
    /\ SettingsInit
    /\ deviceName \in DeviceNames
    /\ local = << >>
    /\ gitAvailable = FALSE
    /\ statusMatrix = << >>
    /\ RemoteInit(<< >>)

\* createCommit is called for a list of processed files
CommitCreated ==
    /\ \E n \in 0..MaxFiles : \E processedFiles \in [1..n -> MdPaths] :
          /\ commits' = << commits[1], createCommit(commits[1].tree, 1, processedFiles) >>
          /\ run' = [NoRun EXCEPT !.kind = "commit", !.processed = processedFiles]
    /\ UNCHANGED << local, gitAvailable, statusMatrix, refs, selectedRepository, deviceName, githubToken, username,
                    repositories, pending,
                    currentDiffs, syncDisabled, pullDisabled, pushDisabled, pc,
                    lastRecon, notice, clock >>

NextMessage == CommitCreated

SpecMessage == InitMessage /\ [][NextMessage]_vars

\* a label that is empty or consists of white space only
blankLabel(L) == \A i \in 1..Len(L) : L[i] \in {" ", "\t"}

\* "file" for one file, "files" for any other count
fileWord(n) == IF n = 1 THEN <<"f", "i", "l", "e">> ELSE <<"f", "i", "l", "e", "s">>

UserEdit ==
    /\ pc = "idle"
    /\ \E p \in DOMAIN local : \E text \in {TextLF, TextAccent} :
          /\ text # local[p]
          /\ local' = [local EXCEPT ![p] = text]
          /\ statusMatrix' = touchRows(statusMatrix, local, [local EXCEPT ![p] = text])
    /\ UNCHANGED << gitAvailable, refs, commits, selectedRepository, deviceName,
                    githubToken, username, repositories, pending, viewVars >>

NextEdit == Next \/ UserEdit

SpecEdit == Init /\ [][NextEdit]_vars

\* the push is past step 3: every blob of the run has been created
blobsCreated == run.kind = "push" /\ pc \in {"push-diffs", "push-commit", "push-ref", "push-local"}

\* C31: the blob a push creates for an added or modified path holds the
\* content the local file at that path has at the time of the push, also
\* when the user edited the file after the last reconciliation; once the
\* branch is advanced, the remote content of every pushed path is the local
\* content.
C31_PushedBlobIsLocalContent ==
    /\ blobsCreated =>
          \A k \in 1..Len(run.fileBlobs) :
              /\ run.fileBlobs[k].path \in DOMAIN local
              /\ run.fileBlobs[k].sha.data = utf8Encode(local[run.fileBlobs[k].path])
    /\ (run.kind = "push" /\ pc = "push-local") =>
          \A k \in 1..Len(run.fileBlobs) :
              /\ run.fileBlobs[k].path \in DOMAIN commits[refs[run.tipBranch]].tree
              /\ utf8Decode(commits[refs[run.tipBranch]].tree[run.fileBlobs[k].path])
                     = local[run.fileBlobs[k].path]

(* ------------------------------------------------------------------ *)
(* Claims about the buttons after a run and about repeated pulls       *)
(* (checked under Spec)                                                *)
(* ------------------------------------------------------------------ *)

\* C32: after every successful Sync, Pull or Push run the Pull button is
\* enabled exactly when the diff list holds a diff the Pull handler selects
\* (remote-modified, case-conflict-only, modified, remote-only) and the Push
\* button exactly when it holds one the Push handler selects (added,
\* modified, remote-only): one rule after all three kinds of run.
C32_OneEnablementRule ==
    (pc = "idle" /\ notice \in {"sync-ok", "pull-ok", "push-ok"}) =>
        /\ pullDisabled <=>
              \A j \in 1..Len(currentDiffs) :
                  currentDiffs[j].status \notin {"remote-modified", "case-conflict-only",
                                                 "modified", "remote-only"}
        /\ pushDisabled <=>
              \A j \in 1..Len(currentDiffs) :
                  currentDiffs[j].status \notin {"added", "modified", "remote-only"}

(* ------------------------------------------------------------------ *)
(* Repeated pulls without failures (SpecConverge)                      *)
(* ------------------------------------------------------------------ *)

\* the diffs for which pullRemoteChange calls generateConflictPath, which
\* reads the time
stampsName(vault, diff) ==
    \/ diff.status = "case-conflict-only"
          /\ diff.localPath # <<>> /\ diff.localPath # diff.filename
    \/ diff.status = "remote-added" /\ findCaseInsensitiveFile(vault, diff.filename) # <<>>

\* a reconciliation in which the tree and every blob are fetched
SyncSucceeds ==
    /\ SyncDone
    /\ lastRecon'.response = "ok" /\ lastRecon'.blobFailed = {}

\* the Pull click of a user who pulls again and again: as PullClick, with
\* the time read only by a run that stamps a conflict name
PullAgainClick ==
    /\ ~pullDisabled
    /\ LET remoteDiffs == filterStatus(currentDiffs, PullStatuses)
           stamps      == \E i \in 1..Len(remoteDiffs) : stampsName(local, remoteDiffs[i])
       IN  /\ stamps => clock < MaxStamps
           /\ clock' = IF stamps THEN clock + 1 ELSE clock
           /\ IF Len(remoteDiffs) = 0
              THEN /\ pullDisabled' = FALSE
                   /\ syncDisabled' = FALSE
                   /\ pushDisabled' = TRUE
                   /\ pc' = "idle"
                   /\ run' = NoRun
                   /\ notice' = "nothing-to-pull"
              ELSE /\ pullDisabled' = TRUE
                   /\ syncDisabled' = TRUE
                   /\ pushDisabled' = TRUE
                   /\ pc' = "pull"
                   /\ run' = [NoRun EXCEPT !.kind = "pull", !.diffs = remoteDiffs]
                   /\ notice' = notice
    /\ UNCHANGED << worldVars, currentDiffs, lastRecon >>

\* an iteration of performPull in which no vault operation throws
PullStepSucceeds == PullStep /\ pc' = "pull"

\* the end of a pull whose local commit is not refused by git and whose
\* reconciliation fetches the tree and every blob
PullFinishSucceeds ==
    /\ PullFinish
    /\ statusMatrix' = commitLocalChanges(statusMatrix, local, run.processed, TRUE).matrix
    /\ notice' = "pull-ok"
    /\ lastRecon'.response = "ok" /\ lastRecon'.blobFailed = {}

NextConverge ==
    \/ SyncClick \/ SyncSucceeds
    \/ PullAgainClick \/ PullStepSucceeds \/ PullFinishSucceeds

\* a run in flight comes to its end
RunEnds == pc # "idle" /\ pc' = "idle"

\* every run that was started goes on to its end, and the user clicks Sync
\* and, whenever it is enabled again and again, Pull
SpecConverge ==
    /\ Init /\ [][NextConverge]_vars
    /\ WF_pc(RunEnds) /\ WF_vars(SyncClick) /\ SF_vars(PullAgainClick)

\* a reconciliation has run and its list holds nothing to pull
nothingToPull == pc = "idle" /\ lastRecon.ran /\ ~hasStatus(currentDiffs, PullStatuses)

\* C33: without external change and without operation failure, repeated
\* successful Pull runs reach a state whose diff list holds no pullable
\* diff (or use up the conflict names the model has).
C33_PullingConverges == <>(nothingToPull \/ clock = MaxStamps)

\* the same for the lists that hold neither a remote-only diff nor a case
\* conflict: there the repeated pulls do reach a list with nothing to pull
C33_PullingConvergesOnPlainLists ==
    <>(nothingToPull \/ hasStatus(currentDiffs, {"remote-only", "case-conflict-only"}))

(* ------------------------------------------------------------------ *)
(* Claims about failed runs (checked under Spec)                       *)
(* ------------------------------------------------------------------ *)

\* a diff of the list still describes the vault: the local text it recorded
\* is the text of the local file it was computed from, and a remote-only
\* diff still has no local file of its name
describesLocal(d) ==
    IF d.status = "remote-only" THEN d.filename \notin DOMAIN local
    ELSE LET path == IF d.localPath # <<>> THEN d.localPath ELSE d.filename
         IN  path \in DOMAIN local /\ local[path] = d.localContent

\* C34: a Push run that ends in the failure branch has not advanced the
\* remote branch reference; after a Pull run that ends in the failure branch
\* the diff list of the controller still describes the local state, so that
\* repeating the action applies or publishes no diff twice.
C34_FailedRunCanBeRepeated ==
    /\ (run.kind = "push" /\ pc = "idle" /\ notice = "push-failed") => refs = run.before
    /\ (run.kind = "pull" /\ pc = "idle" /\ notice = "pull-failed") =>
          \A j \in 1..Len(currentDiffs) : describesLocal(currentDiffs[j])

\* the text of the remote blob at a path of the head tree
trueRemoteContent(p) == utf8Decode(headTree[p])

\* C35: a blob fetch that failed while the snapshot was built never makes a
\* later Pull replace local text by the empty text: whatever a pull writes
\* to a local file, the backup copy of a local file apart, is the true
\* content of the remote blob at the path of the diff.
C35_PullWritesTrueRemoteContent ==
    [][ (pc = "pull" /\ run'.steps # run.steps /\ run.next <= Len(run.diffs)) =>
          LET d == run.diffs[run.next]
          IN  \A q \in DOMAIN local' :
                  ( /\ q \notin DOMAIN local \/ local'[q] # local[q]
                    /\ q # generateConflictPath(d.localPath, LocalWord, timestamp) )
                  => ( /\ d.filename \in DOMAIN headTree
                       /\ local'[q] = trueRemoteContent(d.filename) ) ]_vars

\* the push-time tree fetch of the run failed
pushTreeFetchFailed == \E i \in stepsNamed("tree") : ~run.steps[i].ok

\* C36: when the push-time fetch of the remote tree fails, the push does not
\* drop the selected deletions and report success all the same: the push
\* fails, or every selected remote-only path that the remote holds is gone
\* from the tree of the new commit.
C36_FailedTreeFetchDropsNoDeletion ==
    ( /\ run.kind = "push" /\ pc = "idle" /\ notice = "push-ok"
      /\ pushTreeFetchFailed )
    => \A i \in 1..Len(run.diffs) :
          ( /\ run.diffs[i].status = "remote-only"
            /\ run.diffs[i].filename \in DOMAIN commits[run.tip].tree )
          => run.diffs[i].filename \notin DOMAIN commits[run.commit].tree

(* ------------------------------------------------------------------ *)
(* The stored selection (checked under SpecSettings)                   *)
(* ------------------------------------------------------------------ *)

\* the answer to a repository request arrives
fetchAnswered == pending.repos # NoRequest /\ pending'.repos = NoRequest

\* C37: in every state the settings actions reach, the selected repository
\* is empty or a member of the stored repository list; a failed repository
\* fetch leaves the list and the selection as they were, a successful one
\* leaves the selection empty.
C37_SelectionIsListed ==
    /\ [] ( \/ selectedRepository = ""
            \/ \E i \in 1..Len(repositories) : repositories[i] = selectedRepository )
    /\ [][ fetchAnswered =>
             /\ notice' \in {"repositories-found", "repositories-error"}
             /\ notice' = "repositories-error" =>
                   (repositories' = repositories /\ selectedRepository' = selectedRepository)
             /\ notice' = "repositories-found" => selectedRepository' = "" ]_vars

\* a repository is selected, a refresh of the list failed and left the list
\* and the selection in place
C37_Witness ==
    /\ notice = "repositories-error"
    /\ pending.repos = NoRequest
    /\ selectedRepository = "owner/repo"
    /\ repositories = Accounts[TokenA].repos

====
